---- MODULE Spec2Model ----
(***************************************************************************)
(* A model of ksonnet-gen's emitter (package ksonnet): newRoot builds the  *)
(* Group / VersionedAPI / APIObject / Property tree from the definitions   *)
(* of an API schema, and root.accept walks it with an emitVisitor that     *)
(* renders the tree bottom-up into buffers of indented lines.              *)
(*                                                                         *)
(* Strings that the code compares, sorts, trims or rewrites (group names,  *)
(* versions, kinds, property names) are sequences of byte values, so that  *)
(* Go's `<` on strings, strings.TrimSuffix and the first-letter rewriting  *)
(* are computed and not assumed.  A Go pointer that may be nil is a        *)
(* sequence of length at most one.  A formatted line is the tuple of its   *)
(* format string and its arguments.                                        *)
(***************************************************************************)
EXTENDS Integers, Sequences, FiniteSets, TLC

(***************************************************************************)
(* The bound of the model.                                                 *)
(***************************************************************************)
\* The largest number of definitions of a schema.
MaxDefs == 3

(***************************************************************************)
(* Strings.                                                                *)
(***************************************************************************)
Min(a, b) == IF a < b THEN a ELSE b

\* Go's `a < b` on strings: bytewise lexicographic order.
LexLess(a, b) ==
    \/ /\ Len(a) < Len(b)
       /\ \A i \in 1..Len(a) : a[i] = b[i]
    \/ \E i \in 1..Min(Len(a), Len(b)) :
          /\ a[i] < b[i]
          /\ \A j \in 1..(i - 1) : a[j] = b[j]

\* The set S of distinct strings as the ascending sequence sort.Slice leaves.
RECURSIVE SortNames(_)
SortNames(S) ==
    IF S = {} THEN <<>>
    ELSE LET least == CHOOSE x \in S : \A y \in S \ {x} : LexLess(x, y)
         IN  <<least>> \o SortNames(S \ {least})

\* The set S of distinct strings in descending order.
RECURSIVE SortNamesDescending(_)
SortNamesDescending(S) ==
    IF S = {} THEN <<>>
    ELSE LET most == CHOOSE x \in S : \A y \in S \ {x} : LexLess(y, x)
         IN  <<most>> \o SortNamesDescending(S \ {most})

\* "Type", the suffix of a type alias' name.
TypeSuffix == <<84, 121, 112, 101>>

HasSuffix(s, suf) ==
    /\ Len(s) >= Len(suf)
    /\ SubSeq(s, Len(s) - Len(suf) + 1, Len(s)) = suf

\* strings.TrimSuffix(s, suf)
TrimSuffix(s, suf) ==
    IF HasSuffix(s, suf) THEN SubSeq(s, 1, Len(s) - Len(suf)) ELSE s

IsUpper(c) == c >= 65 /\ c <= 90
IsLower(c) == c >= 97 /\ c <= 122

\* jsonnet.RewriteAsIdentifier: the name with its first letter in lower case.
RewriteAsIdentifier(name) ==
    IF Len(name) > 0 /\ IsUpper(name[1])
    THEN <<name[1] + 32>> \o Tail(name)
    ELSE name

\* jsonnet.RewriteAsFuncParam: an identifier usable as a parameter name.
RewriteAsFuncParam(name) == RewriteAsIdentifier(name)

\* jsonnet.RewriteAsFieldKey: the field key is the schema's own field name.
RewriteAsFieldKey(name) == name

\* Identifier.ToSetterID: "with" and the identifier with a capital first letter.
ToSetterID(id) ==
    <<119, 105, 116, 104>> \o
    (IF Len(id) > 0 /\ IsLower(id[1]) THEN <<id[1] - 32>> \o Tail(id) ELSE id)

\* Identifier.ToMixinID: the setter's name followed by "Mixin".
ToMixinID(id) == ToSetterID(id) \o <<77, 105, 120, 105, 110>>

(***************************************************************************)
(* The names the schemas of the model are made of.                         *)
(***************************************************************************)
nCore == <<99, 111, 114, 101>>      \* "core"
nApps == <<97, 112, 112, 115>>      \* "apps"
nXio  == <<120, 46, 105, 111>>      \* "x.io"
nV1   == <<118, 49>>                \* "v1"
nV2   == <<118, 50>>                \* "v2"
nA    == <<65>>                     \* "A"
nB    == <<66>>                     \* "B"
nC    == <<67>>                     \* "C"
nN    == <<78>>                     \* "N"
nQ    == <<81>>                     \* "Q"
nF    == <<102>>                    \* "f"
nFA   == <<102, 65>>                \* "fA"
nFType == nF \o TypeSuffix          \* "fType"
nG    == <<103>>                    \* "g"
nH    == <<104>>                    \* "h"
nKind == <<107, 105, 110, 100>>     \* "kind"
nApiVersion == <<97, 112, 105, 86, 101, 114, 115, 105, 111, 110>> \* "apiVersion"
nNew  == <<110, 101, 119>>          \* "new"

\* A kubespec.DefinitionName, by the parts its dotted text is made of.
DefName(pkg, group, version, kind) ==
    [pkg |-> pkg, group |-> group, version |-> version, kind |-> kind]

pA  == DefName(1, <<>>, <<nV1>>, nA)         \* api.v1.A
pA2 == DefName(2, <<nCore>>, <<nV1>>, nA)    \* apis.core.v1.A
pB  == DefName(1, <<>>, <<nV1>>, nB)         \* api.v1.B
pC  == DefName(1, <<nApps>>, <<nV1>>, nC)    \* apis.apps.v1.C
pD  == DefName(1, <<nApps>>, <<nV2>>, nC)    \* apis.apps.v2.C
pN  == DefName(1, <<>>, <<>>, nN)            \* a name with no version
pQ  == DefName(3, <<>>, <<nV1>>, nQ)         \* a type that is never mixed in

\* DefinitionName.Parse
Parse(path) ==
    [Package |-> path.pkg, Group |-> path.group,
     Version |-> path.version, Kind |-> path.kind]

\* ParsedDefinitionName.Unparse
Unparse(parsedName) ==
    DefName(parsedName.Package, parsedName.Group,
            parsedName.Version, parsedName.Kind)

\* The references that the emitter never expands into a mixin namespace.
NonMixinRefs == {pQ}

\* isMixinRef: a reference, and not one of the types that are set whole.
isMixinRef(ref) == ref # <<>> /\ ref[1] \notin NonMixinRefs

\* isSpecialProperty: `apiVersion` and `kind`.
isSpecialProperty(name) == name \in {nApiVersion, nKind}

(***************************************************************************)
(* Schemas: kubespec.Property, kubespec.SchemaDefinition and the           *)
(* definitions a schema of the model draws from.                           *)
(***************************************************************************)
PropTyped(t) ==
    [Description |-> <<>>, Type |-> <<t>>, Ref |-> <<>>, Items |-> [Ref |-> <<>>]]
PropRef(p) ==
    [Description |-> <<>>, Type |-> <<>>, Ref |-> <<p>>, Items |-> [Ref |-> <<>>]]
PropArrayOf(p) ==
    [Description |-> <<>>, Type |-> <<"array">>, Ref |-> <<>>,
     Items |-> [Ref |-> <<p>>]]

\* x-kubernetes-group-version-kind: none, one of the empty group, one of x.io.
NoTopLevelSpecs == <<>>
TopLevelPlain   == <<[Group |-> <<>>]>>
TopLevelXio     == <<[Group |-> nXio]>>

SchemaDef(tls, props) ==
    [Description |-> <<>>, TopLevelSpecs |-> tls, Properties |-> props]

\* The definitions a schema may give each name.
Catalog(path) ==
    CASE path = pA ->
           { SchemaDef(t, pr) :
               t \in {TopLevelPlain, NoTopLevelSpecs},
               pr \in { (nF :> PropRef(pB)),
                        (nF :> PropRef(pB)) @@ (nFA :> PropTyped("string")),
                        (nF :> PropRef(pB)) @@ (nFType :> PropTyped("string")),
                        (nF :> PropArrayOf(pB)) @@ (nG :> PropRef(pQ)) } }
      [] path = pA2 ->
           { SchemaDef(t, (nG :> PropTyped("string"))) :
               t \in {TopLevelPlain, NoTopLevelSpecs} }
      [] path = pB ->
           { SchemaDef(t, pr) :
               t \in {NoTopLevelSpecs, TopLevelXio},
               pr \in { (nG :> PropRef(pC)) @@ (nKind :> PropTyped("string")),
                        (nG :> PropTyped("string")) @@ (nH :> PropTyped("object")),
                        (nG :> PropRef(pA)) } }
      [] path = pC ->
           { SchemaDef(t, pr) :
               t \in {NoTopLevelSpecs, TopLevelPlain},
               pr \in { (nH :> PropTyped("string")),
                        (nH :> PropRef(pQ)) } }
      [] path = pD ->
           { SchemaDef(t, (nH :> PropTyped("array"))) :
               t \in {NoTopLevelSpecs, TopLevelPlain} }
      [] path = pN ->
           { SchemaDef(NoTopLevelSpecs, (nG :> PropTyped("string"))) }

Paths == {pA, pA2, pB, pC, pD, pN}

\* APISpec.Definitions of every schema of the model.
SchemasOver(paths) ==
    UNION { { s \in [P -> UNION {Catalog(p) : p \in P}] :
                \A p \in P : s[p] \in Catalog(p) } :
            P \in {Q \in SUBSET paths : Cardinality(Q) <= MaxDefs} }

Schemas == SchemasOver(Paths)

\* The entries a blacklist table of the model draws from.
BlacklistEntries == { <<pA, nF>>, <<pB, nG>>, <<pC, nH>> }

\* The blacklist tables of the model: empty, or of one entry.
Blacklists == { {} } \cup { {b} : b \in BlacklistEntries }

VARIABLES
    spec,          \* root.spec.Definitions: DefinitionName -> SchemaDefinition
    blacklist,     \* kubeversion's table of blacklisted (path, property)
    constructorSpecs, \* kubeversion's table of custom constructors, by path
    ksonnetLibSHA, \* root.ksonnetLibSHA: <<>> for nil
    k8sSHA,        \* root.k8sSHA: <<>> for nil
    pending,       \* the definitions newRoot's range loop has yet to reach
    groups,        \* root.groups
    hiddenGroups,  \* root.hiddenGroups
    status,        \* "running"; "fatal" after a panic; "overflow" when the
                   \* stack ran out; "done" when Emit has returned
    m,             \* the indentWriter: [depth, lines]
    e,             \* the emitVisitor: [groups, hiddenGroups, buffers]
    log,           \* the lines log.Printf wrote
    pos,           \* how many visits root.accept has made, plus one
    other,         \* a second indentWriter, the `o` of insert: [depth, lines]
    buffer,        \* the bytes.Buffer that indentWriter.write writes to
    spliced        \* <<[i, o]>>: the two writers as insert found them; <<>>
                   \* before the insert

vars == <<spec, blacklist, constructorSpecs, ksonnetLibSHA, k8sSHA, pending, groups, hiddenGroups,
          status, m, e, log, pos, other, buffer, spliced>>

(***************************************************************************)
(* Maps and pointers.  A Go map is a function; a pointer to a node of the  *)
(* tree is the node's place in it: <<hidden, group, version>> for a        *)
(* versionedAPI, <<hidden, group, version, kind>> for an apiObject, and    *)
(* the apiObject's place followed by the key for a property.               *)
(***************************************************************************)
EmptyMap == [k \in {} |-> k]

Put(map, k, v) == [x \in DOMAIN map \cup {k} |-> IF x = k THEN v ELSE map[x]]

\* The groupSet a root holds for the visible (FALSE) or the hidden (TRUE) tree.
GroupSetOf(r, hidden) == IF hidden THEN r.hiddenGroups ELSE r.groups

WithGroupSet(r, hidden, gs) ==
    IF hidden THEN [r EXCEPT !.hiddenGroups = gs] ELSE [r EXCEPT !.groups = gs]

\* The places of the apiObjects of a root.
ObjectsOf(r) ==
    UNION { UNION { UNION { { <<hid, g, v, k>> :
                                k \in DOMAIN GroupSetOf(r, hid)[g].versionedAPIs[v].apiObjects } :
                            v \in DOMAIN GroupSetOf(r, hid)[g].versionedAPIs } :
                    g \in DOMAIN GroupSetOf(r, hid) } :
            hid \in BOOLEAN }

\* The apiObject at a place.
Obj(r, oid) ==
    GroupSetOf(r, oid[1])[oid[2]].versionedAPIs[oid[3]].apiObjects[oid[4]]

\* The versionedAPI at a place.
VersionedAPIAt(r, vid) == GroupSetOf(r, vid[1])[vid[2]].versionedAPIs[vid[3]]

\* The property at a place.
Prop(r, pid) == Obj(r, <<pid[1], pid[2], pid[3], pid[4]>>).properties[pid[5]]

\* The root with the property at place pid replaced by p.
WithProp(r, pid, p) ==
    WithGroupSet(r, pid[1],
        [GroupSetOf(r, pid[1]) EXCEPT
            ![pid[2]].versionedAPIs[pid[3]].apiObjects[pid[4]].properties =
                Put(@, pid[5], p)])

(***************************************************************************)
(* Comments.                                                               *)
(***************************************************************************)
\* strings.Split(text, "\n")
RECURSIVE SplitLines(_)
SplitLines(text) ==
    IF \E i \in 1..Len(text) : text[i] = 10
    THEN LET i == CHOOSE i \in 1..Len(text) :
                    /\ text[i] = 10
                    /\ \A j \in 1..(i - 1) : text[j] # 10
         IN  <<SubSeq(text, 1, i - 1)>> \o SplitLines(SubSeq(text, i + 1, Len(text)))
    ELSE <<text>>

newComments(text) == SplitLines(text)

(***************************************************************************)
(* Construction of the tree: newGroup, newVersionedAPI, newAPIObject,      *)
(* newPropertyMethod, newPropertyTypeAlias, createAPIObject, addDefinition.*)
(***************************************************************************)
newGroup(name, qualifiedName) ==
    [name |-> name, qualifiedName |-> qualifiedName, versionedAPIs |-> EmptyMap]

newVersionedAPI(version, parent) ==
    [version |-> version, apiObjects |-> EmptyMap, parent |-> parent]

newAPIObject(name, parent, def) ==
    [name       |-> name.Kind,
     parsedName |-> name,
     properties |-> EmptyMap,
     comments   |-> newComments(def.Description),
     parent     |-> parent,
     isTopLevel |-> Len(def.TopLevelSpecs) > 0]

newPropertyMethod(name, path, prop, parent) ==
    [kind       |-> "method",
     ref        |-> prop.Ref,
     schemaType |-> prop.Type,
     itemTypes  |-> prop.Items,
     name       |-> name,
     path       |-> path,
     comments   |-> newComments(prop.Description),
     parent     |-> parent,
     parentMixinName |-> <<>>]

newPropertyTypeAlias(name, path, prop, parent) ==
    [kind       |-> "typeAlias",
     ref        |-> prop.Ref,
     schemaType |-> prop.Type,
     itemTypes  |-> prop.Items,
     name       |-> name,
     path       |-> path,
     comments   |-> newComments(prop.Description),
     parent     |-> parent,
     parentMixinName |-> <<>>]

\* The name of the group a parsed name belongs to: "core" when it names none.
GroupNameOf(parsedName) ==
    IF parsedName.Group = <<>> THEN nCore ELSE parsedName.Group[1]

\* createAPIObject without its check for an object of the same kind.
createAPIObject_noDuplicateCheck(r, parsedName, def) ==
    IF parsedName.Version = <<>>
    THEN [ok |-> FALSE, root |-> r, object |-> <<>>]
    ELSE
    LET groupName == GroupNameOf(parsedName)
        qualifiedName ==
            IF Len(def.TopLevelSpecs) > 0 /\ def.TopLevelSpecs[1].Group # <<>>
            THEN def.TopLevelSpecs[1].Group
            ELSE groupName
        hidden  == ~(Len(def.TopLevelSpecs) > 0)
        gs0     == GroupSetOf(r, hidden)
        gs1     == IF groupName \in DOMAIN gs0 THEN gs0
                   ELSE Put(gs0, groupName, newGroup(groupName, qualifiedName))
        version == parsedName.Version[1]
        vas0    == gs1[groupName].versionedAPIs
        vid     == <<hidden, groupName, version>>
        vas1    == IF version \in DOMAIN vas0 THEN vas0
                   ELSE Put(vas0, version, newVersionedAPI(version, vid))
        gs2     == [gs1 EXCEPT ![groupName].versionedAPIs = vas1]
        oid     == <<hidden, groupName, version, parsedName.Kind>>
    IN       [ok     |-> TRUE,
              root   |-> WithGroupSet(r, hidden,
                            [gs2 EXCEPT ![groupName].versionedAPIs[version].apiObjects =
                                Put(@, parsedName.Kind,
                                    newAPIObject(parsedName, vid, def))]),
              object |-> oid]

\* createAPIObject filing every object in the visible tree.
createAPIObject_allVisible(r, parsedName, def) ==
    IF parsedName.Version = <<>>
    THEN [ok |-> FALSE, root |-> r, object |-> <<>>]
    ELSE
    LET groupName == GroupNameOf(parsedName)
        qualifiedName ==
            IF Len(def.TopLevelSpecs) > 0 /\ def.TopLevelSpecs[1].Group # <<>>
            THEN def.TopLevelSpecs[1].Group
            ELSE groupName
        hidden  == FALSE
        gs0     == GroupSetOf(r, hidden)
        gs1     == IF groupName \in DOMAIN gs0 THEN gs0
                   ELSE Put(gs0, groupName, newGroup(groupName, qualifiedName))
        version == parsedName.Version[1]
        vas0    == gs1[groupName].versionedAPIs
        vid     == <<hidden, groupName, version>>
        vas1    == IF version \in DOMAIN vas0 THEN vas0
                   ELSE Put(vas0, version, newVersionedAPI(version, vid))
        gs2     == [gs1 EXCEPT ![groupName].versionedAPIs = vas1]
        oid     == <<hidden, groupName, version, parsedName.Kind>>
    IN  IF parsedName.Kind \in DOMAIN vas1[version].apiObjects
        THEN [ok |-> FALSE, root |-> WithGroupSet(r, hidden, gs2), object |-> oid]
        ELSE [ok     |-> TRUE,
              root   |-> WithGroupSet(r, hidden,
                            [gs2 EXCEPT ![groupName].versionedAPIs[version].apiObjects =
                                Put(@, parsedName.Kind,
                                    newAPIObject(parsedName, vid, def))]),
              object |-> oid]

\* root.createAPIObject: [ok, root, object]; ok is FALSE when it panics.
createAPIObject(r, parsedName, def) ==
    IF parsedName.Version = <<>>
    THEN [ok |-> FALSE, root |-> r, object |-> <<>>]
    ELSE
    LET groupName == GroupNameOf(parsedName)
        qualifiedName ==
            IF Len(def.TopLevelSpecs) > 0 /\ def.TopLevelSpecs[1].Group # <<>>
            THEN def.TopLevelSpecs[1].Group
            ELSE groupName
        hidden  == ~(Len(def.TopLevelSpecs) > 0)
        gs0     == GroupSetOf(r, hidden)
        gs1     == IF groupName \in DOMAIN gs0 THEN gs0
                   ELSE Put(gs0, groupName, newGroup(groupName, qualifiedName))
        version == parsedName.Version[1]
        vas0    == gs1[groupName].versionedAPIs
        vid     == <<hidden, groupName, version>>
        vas1    == IF version \in DOMAIN vas0 THEN vas0
                   ELSE Put(vas0, version, newVersionedAPI(version, vid))
        gs2     == [gs1 EXCEPT ![groupName].versionedAPIs = vas1]
        oid     == <<hidden, groupName, version, parsedName.Kind>>
    IN  IF parsedName.Kind \in DOMAIN vas1[version].apiObjects
        THEN [ok |-> FALSE, root |-> WithGroupSet(r, hidden, gs2), object |-> oid]
        ELSE [ok     |-> TRUE,
              root   |-> WithGroupSet(r, hidden,
                            [gs2 EXCEPT ![groupName].versionedAPIs[version].apiObjects =
                                Put(@, parsedName.Kind,
                                    newAPIObject(parsedName, vid, def))]),
              object |-> oid]

\* The body of addDefinition's loop for one property: [ok, root].
addProperty(r, oid, path, propName, prop) ==
    LET pm == newPropertyMethod(propName, path, prop, oid)
        r1 == WithProp(r, oid \o <<propName>>, pm)
        st == prop.Type
    IN  IF isMixinRef(pm.ref) \/
           (st # <<>> /\ st[1] = "array" /\ prop.Items.Ref # <<>>)
        THEN LET typeAliasName == propName \o TypeSuffix
                 properties    == Obj(r1, oid).properties
             IN  IF /\ typeAliasName \in DOMAIN properties
                    /\ properties[typeAliasName].kind # "typeAlias"
                 THEN [ok |-> FALSE, root |-> r1]
                 ELSE [ok   |-> TRUE,
                       root |-> WithProp(r1, oid \o <<typeAliasName>>,
                                   newPropertyTypeAlias(typeAliasName, path, prop, oid))]
        ELSE [ok |-> TRUE, root |-> r1]

\* addDefinition's loop over def.Properties, in the order the map yields them.
RECURSIVE addProperties(_, _, _, _, _)
addProperties(r, oid, path, def, order) ==
    IF order = <<>> THEN [ok |-> TRUE, root |-> r]
    ELSE LET step == addProperty(r, oid, path, Head(order), def.Properties[Head(order)])
         IN  IF step.ok
             THEN addProperties(step.root, oid, path, def, Tail(order))
             ELSE step

\* root.addDefinition, with the order in which def.Properties is ranged over.
addDefinition(r, path, def, order) ==
    LET parsedName == Parse(path)
    IN  IF parsedName.Version = <<>> THEN [ok |-> TRUE, root |-> r]
        ELSE LET made == createAPIObject(r, parsedName, def)
             IN  IF made.ok
                 THEN addProperties(made.root, made.object, path, def, order)
                 ELSE [ok |-> FALSE, root |-> made.root]

\* The orders in which a range loop may yield the keys of a map.
Orders(S) ==
    { o \in [1..Cardinality(S) -> S] : \A i, j \in DOMAIN o : i # j => o[i] # o[j] }

(***************************************************************************)
(* Lookup of a referenced object: getAPIObjectHelper, getAPIObject.        *)
(***************************************************************************)
\* root.getAPIObjectHelper: [found, panic, object].  The tree it searches is
\* root.groups when `hidden` is set and root.hiddenGroups when it is not.
getAPIObjectHelper(r, parsedName, hidden) ==
    IF parsedName.Version = <<>>
    THEN [found |-> FALSE, panic |-> TRUE, object |-> <<>>]
    ELSE
    LET groupName == GroupNameOf(parsedName)
        inHidden  == ~hidden
        gs        == GroupSetOf(r, inHidden)
        version   == parsedName.Version[1]
    IN  IF /\ groupName \in DOMAIN gs
           /\ version \in DOMAIN gs[groupName].versionedAPIs
           /\ parsedName.Kind \in DOMAIN gs[groupName].versionedAPIs[version].apiObjects
        THEN [found |-> TRUE, panic |-> FALSE,
              object |-> <<inHidden, groupName, version, parsedName.Kind>>]
        ELSE [found |-> FALSE, panic |-> FALSE, object |-> <<>>]

\* root.getAPIObject: [ok, object]; ok is FALSE when it panics.
getAPIObject(r, parsedName) ==
    LET first == getAPIObjectHelper(r, parsedName, FALSE)
    IN  IF first.panic THEN [ok |-> FALSE, object |-> <<>>]
        ELSE IF first.found THEN [ok |-> TRUE, object |-> first.object]
        ELSE LET second == getAPIObjectHelper(r, parsedName, TRUE)
             IN  [ok |-> second.found, object |-> second.object]

(***************************************************************************)
(* Sorted slices of the tree's maps.                                       *)
(***************************************************************************)
\* groupSet.toSortedSlice: the groups by ascending name.
groupSet_toSortedSlice_descending(gs) ==
    SortNamesDescending({ gs[k].name : k \in DOMAIN gs })

groupSet_toSortedSlice(gs) == SortNames({ gs[k].name : k \in DOMAIN gs })

\* versionedAPISet.toSortedSlice: the versioned APIs by ascending version.
versionedAPISet_toSortedSlice(vas) ==
    SortNames({ vas[k].version : k \in DOMAIN vas })

\* apiObjectSet.toSortedSlice: the objects by ascending kind.
apiObjectSet_toSortedSlice(aos) == SortNames({ aos[k].name : k \in DOMAIN aos })

\* kubeversion.IsBlacklistedProperty, for the version of the schema.
IsBlacklistedProperty(path, name) == <<path, name>> \in blacklist

\* The properties sortAndFilterBlacklisted keeps.
KeptProperties(properties) ==
    { k \in DOMAIN properties :
        LET pm   == properties[k]
            name == IF pm.kind = "typeAlias"
                    THEN TrimSuffix(pm.name, TypeSuffix) ELSE pm.name
        IN  /\ ~IsBlacklistedProperty(pm.path, name)
            /\ ~(pm.ref # <<>> /\ Parse(pm.ref[1]).Version = <<>>) }

\* sortAndFilterBlacklisted sorting by descending name.
sortAndFilterBlacklisted_descending(properties) ==
    SortNamesDescending({ properties[k].name : k \in KeptProperties(properties) })

\* sortAndFilterBlacklisted without the blacklist lookup.
sortAndFilterBlacklisted_unfiltered(properties) ==
    SortNames({ properties[k].name : k \in
        { k \in DOMAIN properties :
            ~(properties[k].ref # <<>> /\ Parse(properties[k].ref[1]).Version = <<>>) } })

\* propertySet.sortAndFilterBlacklisted: the properties kept, by ascending name.
sortAndFilterBlacklisted(properties) ==
    SortNames({ properties[k].name : k \in KeptProperties(properties) })

(***************************************************************************)
(* The emitVisitor.  The state of a visit is                               *)
(*   root   the tree (a visit may assign to a property),                   *)
(*   m      the indentWriter: [depth, lines],                              *)
(*   e      the visitor: [groups, hiddenGroups, buffers],                  *)
(*   status "running", "fatal" (a panic) or "overflow" (the stack ran out),*)
(*   log    what log.Printf wrote.                                         *)
(* A line of a buffer is [depth, text, by]: the depth it was written at,   *)
(* its text, and the key of the buffer it was first written to.            *)
(***************************************************************************)
Line(depth, text, by) == [depth |-> depth, text |-> text, by |-> by]

\* A new bytes.Buffer stored as e.buffers[key].
NewBuffer(st, key) == [st EXCEPT !.e.buffers = Put(@, key, <<>>)]

\* indentWriter.bufferWriteLine to e.buffers[key]: the text at the current depth.
bufferWriteLine(st, key, text) ==
    [st EXCEPT !.e.buffers[key] = Append(@, Line(st.m.depth, text, key))]

\* indentWriter.indent
indent(st) == [st EXCEPT !.m.depth = @ + 1]

\* indentWriter.dedent
dedent(st) == [st EXCEPT !.m.depth = @ - 1]

\* buffer.Write(e.buffers[from].Bytes()); a key with no buffer is a nil pointer.
WriteBuffer(st, key, from) ==
    IF from \in DOMAIN st.e.buffers
    THEN [st EXCEPT !.e.buffers[key] = @ \o st.e.buffers[from]]
    ELSE [st EXCEPT !.status = "fatal"]

RECURSIVE WriteBuffers(_, _, _)
WriteBuffers(st, key, froms) ==
    IF froms = <<>> \/ st.status # "running" THEN st
    ELSE WriteBuffers(WriteBuffer(st, key, Head(froms)), key, Tail(froms))

Panic(st) == [st EXCEPT !.status = "fatal"]

\* The key of the buffer of a node's comments (&node.comments).
CommentsKey(place) == <<place>>

RECURSIVE WriteComments(_, _, _)
WriteComments(st, key, cs) ==
    IF cs = <<>> THEN st
    ELSE WriteComments(
            bufferWriteLine(st, key,
                IF Head(cs) = <<>> THEN <<"//">> ELSE <<"// %s", Head(cs)>>),
            key, Tail(cs))

\* emitVisitor.visitComments
visitComments(st, key, cs) == WriteComments(NewBuffer(st, key), key, cs)

\* "__%sMixin"
MixinName(functionName) ==
    <<95, 95>> \o functionName \o <<77, 105, 120, 105, 110>>

\* emitVisitor.visitProperty: the property's buffer, with nothing written to it.
visitProperty(st, pid) == NewBuffer(st, pid)

\* emitVisitor.visitTypeAlias, returning without the log.Printf.
visitTypeAlias_silent(st, pid) ==
    LET p   == Prop(st.root, pid)
        st1 == NewBuffer(st, pid)
    IN  IF p.ref = <<>> /\ p.itemTypes.Ref = <<>> THEN Panic(st1)
        ELSE
        LET path == IF p.ref # <<>> THEN p.ref[1] ELSE p.itemTypes.Ref[1]
            parsedPath == Parse(path)
        IN  IF parsedPath.Version = <<>>
            THEN st1
            ELSE
            LET trimmedName == TrimSuffix(p.name, TypeSuffix)
                typeName    == RewriteAsIdentifier(trimmedName) \o TypeSuffix
                group       == GroupNameOf(parsedPath)
                id          == RewriteAsIdentifier(parsedPath.Kind)
            IN  bufferWriteLine(st1, pid,
                    <<"%s:: hidden.%s.%s.%s,", typeName, group,
                      parsedPath.Version[1], id>>)

\* emitVisitor.visitTypeAlias
visitTypeAlias(st, pid) ==
    LET p   == Prop(st.root, pid)
        st1 == NewBuffer(st, pid)
    IN  IF p.ref = <<>> /\ p.itemTypes.Ref = <<>> THEN Panic(st1)
        ELSE
        LET path == IF p.ref # <<>> THEN p.ref[1] ELSE p.itemTypes.Ref[1]
            parsedPath == Parse(path)
        IN  IF parsedPath.Version = <<>>
            THEN [st1 EXCEPT !.log =
                     Append(@, <<"Could not emit type alias for '%s'", path>>)]
            ELSE
            LET trimmedName == TrimSuffix(p.name, TypeSuffix)
                typeName    == RewriteAsIdentifier(trimmedName) \o TypeSuffix
                group       == GroupNameOf(parsedPath)
                id          == RewriteAsIdentifier(parsedPath.Kind)
            IN  bufferWriteLine(st1, pid,
                    <<"%s:: hidden.%s.%s.%s,", typeName, group,
                      parsedPath.Version[1], id>>)

\* emitVisitor.visitRefProperty
visitRefProperty(st, pid) ==
    LET p   == Prop(st.root, pid)
        st1 == NewBuffer(st, pid)
        setterFunctionName == ToSetterID(RewriteAsIdentifier(p.name))
        fieldName == RewriteAsFieldKey(p.name)
        paramName == RewriteAsFuncParam(p.name)
    IN  IF p.parentMixinName = <<>>
        THEN bufferWriteLine(st1, pid,
                <<"%s(%s):: {%s: %s},", setterFunctionName, paramName,
                  fieldName, paramName>>)
        ELSE bufferWriteLine(st1, pid,
                <<"%s(%s):: %s({%s: %s}),", setterFunctionName, paramName,
                  p.parentMixinName, fieldName, paramName>>)

\* The keys of the buffers of the properties `names` of the object at oid.
PropKeys(oid, names) == [i \in 1..Len(names) |-> oid \o <<names[i]>>]

\* The elements of a sequence that a loop does not `continue` past: those
\* in S, in the order of the sequence.
Among(seq, S) ==
    LET F[i \in 0..Len(seq)] ==
            IF i = 0 THEN <<>>
            ELSE IF seq[i] \in S THEN Append(F[i - 1], seq[i]) ELSE F[i - 1]
    IN  F[Len(seq)]

\* The keys among `keys` that have a buffer: `if pbuffer, ok := e.buffers[pm]`.
WithBuffer(st, keys) == Among(keys, DOMAIN st.e.buffers)

\* emitVisitor.visitRefMixinAPIObject.  rmao is [object, prop, parentMixinName]:
\* the place of the apiObject it copies, the place of the property that
\* refers to it, and the qualifier.
visitRefMixinAPIObject(st, rmao) ==
    LET pid == rmao.prop
        p   == Prop(st.root, pid)
        ao  == Obj(st.root, rmao.object)
        st1 == NewBuffer(st, pid)
        functionName == RewriteAsIdentifier(p.name)
        paramName    == RewriteAsFuncParam(p.name)
        fieldName    == RewriteAsFieldKey(p.name)
        mixinName    == MixinName(functionName)
        mixinText ==
            IF rmao.parentMixinName = <<>>
            THEN <<"local %s(%s) = {%s+: %s},", mixinName, paramName,
                   fieldName, paramName>>
            ELSE <<"local %s(%s) = %s({%s+: %s}),", mixinName, paramName,
                   rmao.parentMixinName, fieldName, paramName>>
    IN  IF functionName \in DOMAIN VersionedAPIAt(st.root, ao.parent).apiObjects
        THEN Panic(st1)
        ELSE
        LET st2 == indent(bufferWriteLine(st1, pid, <<"%s:: {", functionName>>))
            st3 == bufferWriteLine(st2, pid, mixinText)
            st4 == bufferWriteLine(st3, pid,
                       <<"mixinInstance(%s):: %s(%s),", paramName, mixinName,
                         paramName>>)
            st5 == WriteBuffers(st4, pid,
                       WithBuffer(st4, PropKeys(rmao.object,
                                           sortAndFilterBlacklisted(ao.properties))))
        IN  bufferWriteLine(dedent(st5), pid, <<"},">>)

\* The refMixinAPIObject property.accept makes for the property at pid and the
\* object it refers to: the qualifier is left at its zero value.
newRefMixinAPIObject_qualified(object, pid) ==
    [object |-> object, prop |-> pid,
     parentMixinName |-> MixinName(RewriteAsIdentifier(pid[5]))]

newRefMixinAPIObject(object, pid) ==
    [object |-> object, prop |-> pid, parentMixinName |-> <<>>]

\* property.accept, refMixinAPIObject.accept and the latter's loop.  `fuel`
\* is the room left on the stack: each nested refMixinAPIObject.accept takes
\* one unit, and with none left the run ends in a stack overflow.
RECURSIVE property_accept(_, _, _)
RECURSIVE refMixinAPIObject_accept(_, _, _)
RECURSIVE refMixinAPIObject_acceptEach(_, _, _, _)

property_accept(st, pid, fuel) ==
    LET p == Prop(st.root, pid)
    IN  IF p.kind = "typeAlias" THEN visitTypeAlias(st, pid)
        ELSE
        LET st1 == visitComments(st, CommentsKey(pid), p.comments)
        IN  IF isMixinRef(p.ref)
            THEN LET got == getAPIObject(st1.root, Parse(p.ref[1]))
                 IN  IF ~got.ok THEN Panic(st1)
                     ELSE refMixinAPIObject_accept(st1,
                              newRefMixinAPIObject(got.object, pid), fuel)
            ELSE IF p.ref # <<>> THEN visitRefProperty(st1, pid)
            ELSE IF p.schemaType = <<>> THEN Panic(st1)
            ELSE visitProperty(st1, pid)

refMixinAPIObject_acceptEach(st, rmao, names, fuel) ==
    IF names = <<>> \/ st.status # "running" THEN st
    ELSE IF isSpecialProperty(Head(names))
    THEN refMixinAPIObject_acceptEach(st, rmao, Tail(names), fuel)
    ELSE LET pid == rmao.object \o <<Head(names)>>
             pm  == Prop(st.root, pid)
             st1 == [st EXCEPT !.root =
                        WithProp(st.root, pid,
                            [pm EXCEPT !.parentMixinName = rmao.parentMixinName])]
         IN  refMixinAPIObject_acceptEach(
                 property_accept(st1, pid, fuel), rmao, Tail(names), fuel)

refMixinAPIObject_accept(st, rmao, fuel) ==
    IF fuel = 0 THEN [st EXCEPT !.status = "overflow"]
    ELSE LET st1 == refMixinAPIObject_acceptEach(st, rmao,
                        sortAndFilterBlacklisted(Obj(st.root, rmao.object).properties),
                        fuel - 1)
         IN  IF st1.status # "running" THEN st1
             ELSE visitRefMixinAPIObject(st1, rmao)

\* The room on the stack: more nested expansions than the tree has properties
\* means that an expansion is inside itself, and so has no end.
StackRoom(r) ==
    1 + Cardinality(UNION { { oid \o <<k>> : k \in DOMAIN Obj(r, oid).properties } :
                            oid \in ObjectsOf(r) })

RECURSIVE apiObject_acceptEach(_, _, _, _)
apiObject_acceptEach(st, oid, names, fuel) ==
    IF names = <<>> \/ st.status # "running" THEN st
    ELSE apiObject_acceptEach(
             property_accept(st, oid \o <<Head(names)>>, fuel), oid, Tail(names), fuel)

\* emitVisitor.visitAPIObject.  No code gives an apiObject constructors, so
\* the loop over them writes nothing.
visitAPIObject(st, oid) ==
    LET ao  == Obj(st.root, oid)
        st1 == NewBuffer(st, oid)
        jsonnetName == RewriteAsIdentifier(ao.name)
        st2 == WriteBuffer(st1, oid, CommentsKey(oid))
        st3 == indent(bufferWriteLine(st2, oid, <<"%s:: {", jsonnetName>>))
        st4 == IF ao.isTopLevel
               THEN bufferWriteLine(st3, oid, <<"local kind = {kind: \"%s\"},", ao.name>>)
               ELSE st3
        kept == sortAndFilterBlacklisted(ao.properties)
        plain == { k \in DOMAIN ao.properties :
                     ~(isSpecialProperty(ao.properties[k].name)
                       \/ isMixinRef(ao.properties[k].ref)) }
        mixin == { k \in DOMAIN ao.properties : isMixinRef(ao.properties[k].ref) }
        st5 == WriteBuffers(st4, oid, PropKeys(oid, Among(kept, plain)))
        st6 == indent(bufferWriteLine(st5, oid, <<"mixin:: {">>))
        st7 == WriteBuffers(st6, oid, PropKeys(oid, Among(kept, mixin)))
        st8 == bufferWriteLine(dedent(st7), oid, <<"},">>)
    IN  IF st2.status # "running" THEN st2
        ELSE IF st5.status # "running" THEN st5
        ELSE IF st7.status # "running" THEN st7
        ELSE bufferWriteLine(dedent(st8), oid, <<"},">>)

\* apiObject.accept
apiObject_accept(st, oid) ==
    LET ao  == Obj(st.root, oid)
        st1 == visitComments(st, CommentsKey(oid), ao.comments)
        st2 == apiObject_acceptEach(st1, oid,
                   sortAndFilterBlacklisted(ao.properties), StackRoom(st.root))
    IN  IF st2.status # "running" THEN st2 ELSE visitAPIObject(st2, oid)

\* emitVisitor.visitVersionedAPI
visitVersionedAPI(st, vid) ==
    LET va  == VersionedAPIAt(st.root, vid)
        gn  == GroupSetOf(st.root, vid[1])[vid[2]].qualifiedName
        st1 == NewBuffer(st, vid)
        st2 == indent(bufferWriteLine(st1, vid, <<"%s:: {", va.version>>))
        st3 == IF gn = nCore
               THEN bufferWriteLine(st2, vid,
                        <<"local apiVersion = {apiVersion: \"%s\"},", va.version>>)
               ELSE bufferWriteLine(st2, vid,
                        <<"local apiVersion = {apiVersion: \"%s/%s\"},", gn, va.version>>)
        objects == apiObjectSet_toSortedSlice(va.apiObjects)
        st4 == WriteBuffers(st3, vid,
                   [i \in 1..Len(objects) |-> vid \o <<objects[i]>>])
    IN  IF st4.status # "running" THEN st4
        ELSE bufferWriteLine(dedent(st4), vid, <<"},">>)

\* versionedAPI.accept, with the objects' accepts done: visitVersionedAPI.
\* group.accept, with the versioned APIs' accepts done: visitGroup.

\* The buffer visitGroup writes to: e.groups, or e.hiddenGroups.
GroupsBuffer(st, hidden) == IF hidden THEN st.e.hiddenGroups ELSE st.e.groups

WithGroupsBuffer(st, hidden, lines) ==
    IF hidden THEN [st EXCEPT !.e.hiddenGroups = lines]
    ELSE [st EXCEPT !.e.groups = lines]

\* emitVisitor.visitGroup
visitGroup(st, gid) ==
    LET hidden == gid[1]
        group  == GroupSetOf(st.root, hidden)[gid[2]]
        mixinName == RewriteAsIdentifier(group.name)
        st1 == WithGroupsBuffer(st, hidden,
                   Append(GroupsBuffer(st, hidden),
                          Line(st.m.depth, <<"%s:: {", mixinName>>, gid)))
        versions == versionedAPISet_toSortedSlice(group.versionedAPIs)
        keys == [i \in 1..Len(versions) |-> gid \o <<versions[i]>>]
        st2 == indent(st1)
    IN  IF \E i \in 1..Len(keys) : keys[i] \notin DOMAIN st2.e.buffers
        THEN Panic(st2)
        ELSE
        LET body == [i \in 1..Len(keys) |-> st2.e.buffers[keys[i]]]
            Cat[i \in 0..Len(body)] ==
                IF i = 0 THEN <<>> ELSE Cat[i - 1] \o body[i]
            st3 == WithGroupsBuffer(st2, hidden,
                       GroupsBuffer(st2, hidden) \o Cat[Len(body)])
            st4 == dedent(st3)
        IN  WithGroupsBuffer(st4, hidden,
                Append(GroupsBuffer(st4, hidden),
                       Line(st4.m.depth, <<"},">>, gid)))

\* indentWriter.writeLine
writeLine(st, text) ==
    [st EXCEPT !.m.lines = Append(@, Line(st.m.depth, text, <<>>))]

\* root.spec.Info.Version
K8sVersion == "v1.7.0"

\* emitVisitor.visitRoot, for the two stamps Emit was given.  The rendered
\* text of e.groups and of e.hiddenGroups goes into the document where
\* root.emit emits the groups.
visitRoot(st, libSHA, kSHA) ==
    LET st1 == writeLine(
                   writeLine(st,
                       <<"// AUTOGENERATED from the Kubernetes OpenAPI specification. DO NOT MODIFY.">>),
                   <<"// Kubernetes version: %s", K8sVersion>>)
        st2 == IF libSHA # <<>>
               THEN writeLine(st1, <<"// SHA of ksonnet-lib HEAD: %s", libSHA[1]>>)
               ELSE st1
    IN  IF libSHA # <<>> /\ kSHA = <<>> THEN Panic(st2)
        ELSE
        LET st3 == IF libSHA # <<>>
                   THEN writeLine(st2,
                            <<"// SHA of Kubernetes HEAD OpenAPI spec is generated from: %s",
                              kSHA[1]>>)
                   ELSE st2
            st4 == indent(writeLine(writeLine(st3, <<"">>), <<"{">>))
            st5 == [st4 EXCEPT !.m.lines = @ \o st4.e.groups]
            st6 == indent(writeLine(st5, <<"local hidden = {">>))
            st7 == [st6 EXCEPT !.m.lines = @ \o st6.e.hiddenGroups]
            st8 == writeLine(dedent(st7), <<"},">>)
        IN  writeLine(dedent(st8), <<"}">>)

\* root.accept visiting each versioned API before its objects.
Visits_versionFirst(r) ==
    LET ObjectVisits(vid) ==
            LET ks == apiObjectSet_toSortedSlice(VersionedAPIAt(r, vid).apiObjects)
            IN  [i \in 1..Len(ks) |-> [visit |-> "apiObject", at |-> vid \o <<ks[i]>>]]
        VersionVisits(gid) ==
            LET vs == versionedAPISet_toSortedSlice(
                          GroupSetOf(r, gid[1])[gid[2]].versionedAPIs)
                V[i \in 0..Len(vs)] ==
                    IF i = 0 THEN <<>>
                    ELSE V[i - 1]
                             \o <<[visit |-> "versionedAPI", at |-> gid \o <<vs[i]>>]>>
                             \o ObjectVisits(gid \o <<vs[i]>>)
            IN  V[Len(vs)]
        GroupVisits(hidden) ==
            LET gs == groupSet_toSortedSlice(GroupSetOf(r, hidden))
                G[i \in 0..Len(gs)] ==
                    IF i = 0 THEN <<>>
                    ELSE G[i - 1] \o VersionVisits(<<hidden, gs[i]>>)
                              \o <<[visit |-> "group", at |-> <<hidden, gs[i]>>]>>
            IN  G[Len(gs)]
    IN  GroupVisits(FALSE) \o GroupVisits(TRUE) \o <<[visit |-> "root", at |-> <<>>]>>

\* The visits of root.accept in the order it makes them: for the visible and
\* then the hidden groups, by name, each group's versioned APIs by version,
\* each one's objects by kind, every node after its children; the root last.
Visits(r) ==
    LET ObjectVisits(vid) ==
            LET ks == apiObjectSet_toSortedSlice(VersionedAPIAt(r, vid).apiObjects)
            IN  [i \in 1..Len(ks) |-> [visit |-> "apiObject", at |-> vid \o <<ks[i]>>]]
        VersionVisits(gid) ==
            LET vs == versionedAPISet_toSortedSlice(
                          GroupSetOf(r, gid[1])[gid[2]].versionedAPIs)
                V[i \in 0..Len(vs)] ==
                    IF i = 0 THEN <<>>
                    ELSE V[i - 1] \o ObjectVisits(gid \o <<vs[i]>>)
                              \o <<[visit |-> "versionedAPI", at |-> gid \o <<vs[i]>>]>>
            IN  V[Len(vs)]
        GroupVisits(hidden) ==
            LET gs == groupSet_toSortedSlice(GroupSetOf(r, hidden))
                G[i \in 0..Len(gs)] ==
                    IF i = 0 THEN <<>>
                    ELSE G[i - 1] \o VersionVisits(<<hidden, gs[i]>>)
                              \o <<[visit |-> "group", at |-> <<hidden, gs[i]>>]>>
            IN  G[Len(gs)]
    IN  GroupVisits(FALSE) \o GroupVisits(TRUE) \o <<[visit |-> "root", at |-> <<>>]>>

(***************************************************************************)
(* Constructors.  A kubeversion.CustomConstructorParam is                  *)
(* [ID, DefaultValue, RelativePath], the last two <<>> for nil; a          *)
(* constructor spec is [ID, Params].  The text of a constructor keeps the  *)
(* lists strings.Join makes one string of: the parameter literals and the  *)
(* terms of the body.                                                      *)
(***************************************************************************)
constructorName == nNew

specialPropertiesList == <<nApiVersion, nKind>>

\* kubeversion.ConstructorSpec: the custom constructors of a path, if any.
ConstructorSpec(path) ==
    IF path \in DOMAIN constructorSpecs
    THEN [ok |-> TRUE, specs |-> constructorSpecs[path]]
    ELSE [ok |-> FALSE, specs |-> <<>>]

\* The loop of emitConstructor over params, without the lookup of the
\* property a parameter names.
RECURSIVE emitConstructor_params_unchecked(_, _, _, _)
emitConstructor_params_unchecked(properties, params, paramLiterals, setters) ==
    IF params = <<>>
    THEN [ok |-> TRUE, paramLiterals |-> paramLiterals, setters |-> setters]
    ELSE
    LET param == Head(params)
        literals == Append(paramLiterals,
                        IF param.DefaultValue # <<>>
                        THEN <<"%s=%s", param.ID, param.DefaultValue[1]>>
                        ELSE param.ID)
    IN  IF param.RelativePath = <<>>
        THEN emitConstructor_params_unchecked(properties, Tail(params), literals,
                 Append(setters,
                     <<"self.%s(%s)", ToSetterID(RewriteAsIdentifier(param.ID)),
                       param.ID>>))
        ELSE emitConstructor_params_unchecked(properties, Tail(params), literals,
                 Append(setters,
                     <<"self.%s(%s)", param.RelativePath[1], param.ID>>))

\* The loop of emitConstructor over params: [ok, paramLiterals, setters]; ok
\* is FALSE when it panics.
RECURSIVE emitConstructor_params(_, _, _, _)
emitConstructor_params(properties, params, paramLiterals, setters) ==
    IF params = <<>>
    THEN [ok |-> TRUE, paramLiterals |-> paramLiterals, setters |-> setters]
    ELSE
    LET param == Head(params)
        literals == Append(paramLiterals,
                        IF param.DefaultValue # <<>>
                        THEN <<"%s=%s", param.ID, param.DefaultValue[1]>>
                        ELSE param.ID)
    IN  IF param.RelativePath = <<>>
        THEN IF param.ID \notin DOMAIN properties
             THEN [ok |-> FALSE, paramLiterals |-> literals, setters |-> setters]
             ELSE emitConstructor_params(properties, Tail(params), literals,
                      Append(setters,
                          <<"self.%s(%s)",
                            ToSetterID(RewriteAsIdentifier(properties[param.ID].name)),
                            param.ID>>))
        ELSE emitConstructor_params(properties, Tail(params), literals,
                 Append(setters,
                     <<"self.%s(%s)", param.RelativePath[1], param.ID>>))

\* apiObject.emitConstructor
emitConstructor(st, oid, id, params) ==
    LET ao == Obj(st.root, oid)
        specName == id
    IN  IF specName \in DOMAIN ao.properties THEN Panic(st)
        ELSE
        LET defaultSetters ==
                IF ao.isTopLevel THEN specialPropertiesList ELSE << <<"{}">> >>
            built == emitConstructor_params(ao.properties, params, <<>>,
                                            defaultSetters)
        IN  IF ~built.ok THEN Panic(st)
            ELSE writeLine(st, <<"%s(%s):: %s,", specName, built.paramLiterals,
                                 built.setters>>)

\* The constructors apiObject.emitConstructors emits for the object at oid:
\* those of the table, or `new` without parameters.
emitConstructors(r, oid) ==
    LET got == ConstructorSpec(Unparse(Obj(r, oid).parsedName))
    IN  IF ~got.ok THEN <<[ID |-> constructorName, Params |-> <<>>]>>
        ELSE got.specs

\* The constructor a visitor is handed for spec cs of the object at oid.
newConstructor(r, oid, cs) ==
    [specName |-> cs.ID, apiObj |-> oid, params |-> cs.Params,
     defaultSetters |-> IF Obj(r, oid).isTopLevel THEN specialPropertiesList
                        ELSE << <<"{}">> >>]

\* The key of the buffer of a constructor.
ConstructorKey(c) == c.apiObj \o <<c.specName, "constructor">>

\* The loop of visitConstructor over c.params: [ok, paramLiterals, setters].
RECURSIVE visitConstructor_params(_, _, _, _)
visitConstructor_params(properties, params, paramLiterals, setters) ==
    IF params = <<>>
    THEN [ok |-> TRUE, paramLiterals |-> paramLiterals, setters |-> setters]
    ELSE
    LET param == Head(params)
        literals == Append(paramLiterals,
                        IF param.DefaultValue # <<>>
                        THEN <<"%s=%s", param.ID, param.DefaultValue[1]>>
                        ELSE param.ID)
    IN  IF param.RelativePath = <<>>
        THEN IF param.ID \notin DOMAIN properties
             THEN [ok |-> FALSE, paramLiterals |-> literals, setters |-> setters]
             ELSE visitConstructor_params(properties, Tail(params), literals,
                      Append(setters,
                          <<"self.%s(%s)",
                            ToSetterID(RewriteAsIdentifier(properties[param.ID].name)),
                            param.ID>>))
        ELSE visitConstructor_params(properties, Tail(params), literals,
                 Append(setters,
                     <<"self.%s(%s)", param.RelativePath[1], param.ID>>))

\* emitVisitor.visitConstructor
visitConstructor(st, c) ==
    LET built == visitConstructor_params(Obj(st.root, c.apiObj).properties,
                     c.params, <<>>, c.defaultSetters)
    IN  IF ~built.ok THEN Panic(st)
        ELSE bufferWriteLine(NewBuffer(st, ConstructorKey(c)), ConstructorKey(c),
                 <<"%s(%s):: %s,", c.specName, built.paramLiterals, built.setters>>)

(***************************************************************************)
(* The run: Emit(spec, ksonnetLibSHA, k8sSHA).                             *)
(***************************************************************************)
TheRoot == [groups |-> groups, hiddenGroups |-> hiddenGroups]

\* The state of the visit, from the variables.
TheVisit ==
    [root |-> TheRoot, m |-> m, e |-> e, status |-> status, log |-> log]

\* The stamps Emit is given: a revision of the library and one of the schema.
Stamps == { <<"abc">> }

Init ==
    /\ spec \in Schemas
    /\ blacklist \in Blacklists
    /\ constructorSpecs = EmptyMap
    /\ ksonnetLibSHA \in Stamps
    /\ k8sSHA \in Stamps
    /\ pending = DOMAIN spec
    /\ groups = EmptyMap
    /\ hiddenGroups = EmptyMap
    /\ status = "running"
    /\ m = [depth |-> 0, lines |-> <<>>]
    /\ e = [groups |-> <<>>, hiddenGroups |-> <<>>, buffers |-> EmptyMap]
    /\ log = <<>>
    /\ pos = 1
    /\ other = [depth |-> 0, lines |-> <<>>]
    /\ buffer = <<>>
    /\ spliced = <<>>

inputs == <<spec, blacklist, constructorSpecs, ksonnetLibSHA, k8sSHA>>

\* One iteration of newRoot's loop: root.addDefinition(defName, def).
AddDefinition ==
    /\ status = "running"
    /\ \E defName \in pending :
         \E order \in Orders(DOMAIN spec[defName].Properties) :
            LET res == addDefinition(TheRoot, defName, spec[defName], order)
            IN  /\ pending' = pending \ {defName}
                /\ groups' = res.root.groups
                /\ hiddenGroups' = res.root.hiddenGroups
                /\ status' = IF res.ok THEN "running" ELSE "fatal"
    /\ UNCHANGED <<inputs, m, e, log, pos, other, buffer, spliced>>

\* The visit root.accept makes next, once newRoot has returned.
Visiting(kind) ==
    /\ status = "running"
    /\ pending = {}
    /\ pos <= Len(Visits(TheRoot))
    /\ Visits(TheRoot)[pos].visit = kind

\* The variables after a visit that left the state st.
Visited(st) ==
    /\ groups' = st.root.groups
    /\ hiddenGroups' = st.root.hiddenGroups
    /\ m' = st.m
    /\ e' = st.e
    /\ log' = st.log
    /\ pos' = pos + 1
    /\ UNCHANGED <<inputs, pending, other, buffer, spliced>>

\* object.accept(visitor), in versionedAPI.accept's loop.
AcceptAPIObject ==
    /\ Visiting("apiObject")
    /\ LET st == apiObject_accept(TheVisit, Visits(TheRoot)[pos].at)
       IN  Visited(st) /\ status' = st.status

\* visitor.visitVersionedAPI(va), at the end of versionedAPI.accept.
VisitVersionedAPI ==
    /\ Visiting("versionedAPI")
    /\ LET st == visitVersionedAPI(TheVisit, Visits(TheRoot)[pos].at)
       IN  Visited(st) /\ status' = st.status

\* visitor.visitGroup(group, hidden), at the end of group.accept.
VisitGroup ==
    /\ Visiting("group")
    /\ LET st == visitGroup(TheVisit, Visits(TheRoot)[pos].at)
       IN  Visited(st) /\ status' = st.status

\* visitor.visitRoot(root), at the end of root.accept; Emit then returns the
\* bytes of m.
VisitRoot ==
    /\ Visiting("root")
    /\ LET st == visitRoot(TheVisit, ksonnetLibSHA, k8sSHA)
       IN  /\ Visited(st)
           /\ status' = IF st.status = "running" THEN "done" ELSE st.status

Next ==
    \/ AddDefinition
    \/ AcceptAPIObject
    \/ VisitVersionedAPI
    \/ VisitGroup
    \/ VisitRoot

Spec == Init /\ [][Next]_vars

(***************************************************************************)
(* The building of constructors.  Emit reaches neither emitConstructors    *)
(* nor visitConstructor, so they are applied here to every object of a     *)
(* tree newRoot has built, under every table of custom constructors of     *)
(* the bounds below.                                                       *)
(***************************************************************************)
MaxParams == 2

nZ == <<122>>                           \* "z"

CustomConstructorParam(id, default, path) ==
    [ID |-> id, DefaultValue |-> default, RelativePath |-> path]

\* A parameter naming g, one naming h with a default, one naming g with the
\* path of its setter, one naming h with a path no object has.
ParamChoices ==
    { CustomConstructorParam(nG, <<>>, <<>>),
      CustomConstructorParam(nH, <<"1">>, <<>>),
      CustomConstructorParam(nG, <<>>, <<ToSetterID(nG)>>),
      CustomConstructorParam(nH, <<>>, <<ToSetterID(nZ)>>) }

ParamLists ==
    UNION { [1..n -> ParamChoices] : n \in 0..MaxParams }

\* A table with the constructors of at most one path: one constructor,
\* named `new` or as the property g.
ConstructorTables(paths) ==
    {EmptyMap} \cup
    { [p \in {path} |-> <<[ID |-> id, Params |-> ps]>>] :
        path \in paths, id \in {nNew, nG}, ps \in ParamLists }

InitCtor ==
    /\ spec \in SchemasOver({pA, pC})
    /\ blacklist = {}
    /\ constructorSpecs \in ConstructorTables(DOMAIN spec)
    /\ ksonnetLibSHA \in Stamps
    /\ k8sSHA \in Stamps
    /\ pending = DOMAIN spec
    /\ groups = EmptyMap
    /\ hiddenGroups = EmptyMap
    /\ status = "running"
    /\ m = [depth |-> 0, lines |-> <<>>]
    /\ e = [groups |-> <<>>, hiddenGroups |-> <<>>, buffers |-> EmptyMap]
    /\ log = <<>>
    /\ pos = 1
    /\ other = [depth |-> 0, lines |-> <<>>]
    /\ buffer = <<>>
    /\ spliced = <<>>

\* The constructors to build, in the order of the objects in the tree:
\* [object, spec].
ConstructorJobs(r) ==
    LET visits == Visits(r)
        J[i \in 0..Len(visits)] ==
            IF i = 0 THEN <<>>
            ELSE IF visits[i].visit # "apiObject" THEN J[i - 1]
            ELSE LET specs == emitConstructors(r, visits[i].at)
                 IN  J[i - 1] \o [k \in 1..Len(specs) |->
                                     [object |-> visits[i].at, spec |-> specs[k]]]
    IN  J[Len(visits)]

Building ==
    /\ status = "running"
    /\ pending = {}
    /\ pos <= Len(ConstructorJobs(TheRoot))

\* ao.emitConstructor(m, spec.ID, spec.Params), in emitConstructors' loop.
EmitConstructor ==
    /\ Building
    /\ \E job \in {ConstructorJobs(TheRoot)[pos]} :
          LET st == emitConstructor(TheVisit, job.object, job.spec.ID, job.spec.Params)
          IN  Visited(st) /\ status' = st.status

\* visitor.visitConstructor(c)
VisitConstructor ==
    /\ Building
    /\ \E job \in {ConstructorJobs(TheRoot)[pos]} :
          \E c \in {newConstructor(TheRoot, job.object, job.spec)} :
             LET st == visitConstructor(TheVisit, c)
             IN  Visited(st) /\ status' = st.status

NextCtor ==
    \/ AddDefinition
    \/ EmitConstructor
    \/ VisitConstructor

SpecCtor == InitCtor /\ [][NextCtor]_vars

(***************************************************************************)
(* Schemas of rarer shapes: references to a name with no version, kinds    *)
(* that differ only in the case of their first letter, a kind spelt as a   *)
(* property's identifier, and every combination of present and absent      *)
(* stamps.                                                                 *)
(***************************************************************************)
nLa == <<97>>                            \* "a"

pLa == DefName(1, <<>>, <<nV1>>, nLa)        \* api.v1.a
pLf == DefName(1, <<>>, <<nV1>>, nF)         \* api.v1.f
pCf == DefName(1, <<nApps>>, <<nV1>>, nF)    \* apis.apps.v1.f

RareCatalog(path) ==
    CASE path = pA ->
           { SchemaDef(TopLevelPlain, pr) :
               pr \in { (nF :> PropArrayOf(pN)) @@ (nG :> PropRef(pQ)),
                        (nF :> PropRef(pN)) @@ (nG :> PropRef(pQ)),
                        (nF :> PropRef(pC)),
                        (nF :> PropRef(pB)) } }
      [] path = pLa ->
           { SchemaDef(t, (nG :> PropRef(pQ))) :
               t \in {TopLevelPlain, NoTopLevelSpecs} }
      [] path = pLf ->
           { SchemaDef(t, (nH :> PropTyped("string"))) :
               t \in {TopLevelPlain, NoTopLevelSpecs} }
      [] path = pCf ->
           { SchemaDef(NoTopLevelSpecs, (nH :> PropTyped("string"))) }
      [] path = pC ->
           { SchemaDef(NoTopLevelSpecs, (nH :> PropRef(pQ))) }
      [] path = pB ->
           { SchemaDef(NoTopLevelSpecs,
                       (nH :> PropRef(pQ)) @@ (nKind :> PropTyped("string"))) }

RarePaths == {pA, pLa, pLf, pCf, pC, pB}

RareSchemas ==
    UNION { { s \in [P -> UNION {RareCatalog(p) : p \in P}] :
                \A p \in P : s[p] \in RareCatalog(p) } :
            P \in {Q \in SUBSET RarePaths : Cardinality(Q) <= MaxDefs} }

\* Each stamp absent (nil) or present.
LibStamps    == { <<>>, <<"abc">> }
SchemaStamps == { <<>>, <<"def">> }

InitRare ==
    /\ spec \in RareSchemas
    /\ blacklist = {}
    /\ constructorSpecs = EmptyMap
    /\ ksonnetLibSHA \in LibStamps
    /\ k8sSHA \in SchemaStamps
    /\ pending = DOMAIN spec
    /\ groups = EmptyMap
    /\ hiddenGroups = EmptyMap
    /\ status = "running"
    /\ m = [depth |-> 0, lines |-> <<>>]
    /\ e = [groups |-> <<>>, hiddenGroups |-> <<>>, buffers |-> EmptyMap]
    /\ log = <<>>
    /\ pos = 1
    /\ other = [depth |-> 0, lines |-> <<>>]
    /\ buffer = <<>>
    /\ spliced = <<>>

SpecRare == InitRare /\ [][Next]_vars

(***************************************************************************)
(* The indentWriter on its own: two writers, m (the `i` of insert) and     *)
(* other (its `o`), operated on in any order by writeLine, indent and      *)
(* dedent; then i.insert(o); then i.write(&buffer).  dedent is taken as    *)
(* far as one level below depth 0.                                         *)
(***************************************************************************)
MaxEarlier == 1     \* the lines writeLine gives i
MaxLines   == 2     \* the lines writeLine gives o
MaxDepth   == 1     \* how deep indent takes a writer

\* The texts written: "a" and "b".
Texts == { <<97>>, <<98>> }

\* The indentation of one level, "  ", and "\n".
IndentUnit == <<32, 32>>
Newline    == <<10>>

\* strings.Repeat(s, count), for a count that is not negative.
RECURSIVE Repeat(_, _)
Repeat(s, count) == IF count = 0 THEN <<>> ELSE s \o Repeat(s, count - 1)

\* indentWriter.writeLine, indent and dedent on a writer.
indentWriter_writeLine(i, text) ==
    [i EXCEPT !.lines = Append(@, Line(i.depth, text, <<>>))]

indentWriter_indent(i) == [i EXCEPT !.depth = @ + 1]

indentWriter_dedent(i) == [i EXCEPT !.depth = @ - 1]

\* indentWriter.insert appending the lines as they are.
indentWriter_insert_unshifted(i, lines) ==
    [i EXCEPT !.lines = @ \o lines]

\* indentWriter.insert: the loop over o.lines.
RECURSIVE indentWriter_insert(_, _)
indentWriter_insert(i, lines) ==
    IF lines = <<>> THEN i
    ELSE indentWriter_insert(
             [i EXCEPT !.lines =
                 Append(@, Line(Head(lines).depth + i.depth, Head(lines).text, <<>>))],
             Tail(lines))

\* indentWriter.write: [ok, bytes], the buffer after the loop; ok is FALSE
\* when strings.Repeat panicked on a negative depth.
RECURSIVE indentWriter_write(_, _)
indentWriter_write(lines, bytes) ==
    IF lines = <<>> THEN [ok |-> TRUE, bytes |-> bytes]
    ELSE LET l == Head(lines)
         IN  IF l.depth < 0 THEN [ok |-> FALSE, bytes |-> bytes]
             ELSE indentWriter_write(Tail(lines),
                      bytes \o Repeat(IndentUnit, l.depth) \o l.text \o Newline)

InitWriter ==
    /\ spec = EmptyMap
    /\ blacklist = {}
    /\ constructorSpecs = EmptyMap
    /\ ksonnetLibSHA = <<>>
    /\ k8sSHA = <<>>
    /\ pending = {}
    /\ groups = EmptyMap
    /\ hiddenGroups = EmptyMap
    /\ status = "running"
    /\ m = [depth |-> 0, lines |-> <<>>]
    /\ e = [groups |-> <<>>, hiddenGroups |-> <<>>, buffers |-> EmptyMap]
    /\ log = <<>>
    /\ pos = 1
    /\ other = [depth |-> 0, lines |-> <<>>]
    /\ buffer = <<>>
    /\ spliced = <<>>

\* What no operation on a writer changes.
WriterFrame ==
    UNCHANGED <<inputs, pending, groups, hiddenGroups, e, log, pos>>

\* i.writeLine(text), o.writeLine(text)
WriterWriteLine ==
    /\ status = "running"
    /\ spliced = <<>>
    /\ \E text \in Texts :
          \/ /\ Len(m.lines) < MaxEarlier
             /\ m' = indentWriter_writeLine(m, text)
             /\ UNCHANGED other
          \/ /\ Len(other.lines) < MaxLines
             /\ other' = indentWriter_writeLine(other, text)
             /\ UNCHANGED m
    /\ UNCHANGED <<status, buffer, spliced>>
    /\ WriterFrame

\* i.indent(), o.indent()
WriterIndent ==
    /\ status = "running"
    /\ spliced = <<>>
    /\ \/ /\ m.depth < MaxDepth
          /\ m' = indentWriter_indent(m)
          /\ UNCHANGED other
       \/ /\ other.depth < MaxDepth
          /\ other' = indentWriter_indent(other)
          /\ UNCHANGED m
    /\ UNCHANGED <<status, buffer, spliced>>
    /\ WriterFrame

\* i.dedent(), o.dedent()
WriterDedent ==
    /\ status = "running"
    /\ spliced = <<>>
    /\ \/ /\ m.depth > -1
          /\ m' = indentWriter_dedent(m)
          /\ UNCHANGED other
       \/ /\ other.depth > -1
          /\ other' = indentWriter_dedent(other)
          /\ UNCHANGED m
    /\ UNCHANGED <<status, buffer, spliced>>
    /\ WriterFrame

\* i.insert(o)
WriterInsert ==
    /\ status = "running"
    /\ spliced = <<>>
    /\ m' = indentWriter_insert(m, other.lines)
    /\ spliced' = << [i |-> m, o |-> other] >>
    /\ UNCHANGED <<other, status, buffer>>
    /\ WriterFrame

\* i.write(&buffer), after which the writers are left alone.
WriterWrite ==
    /\ status = "running"
    /\ LET written == indentWriter_write(m.lines, buffer)
       IN  /\ buffer' = written.bytes
           /\ status' = IF written.ok THEN "done" ELSE "fatal"
    /\ UNCHANGED <<m, other, spliced>>
    /\ WriterFrame

NextWriter ==
    \/ WriterWriteLine
    \/ WriterIndent
    \/ WriterDedent
    \/ WriterInsert
    \/ WriterWrite

SpecWriter == InitWriter /\ [][NextWriter]_vars

(***************************************************************************)
(* Constructors whose parameters name properties that have no setter: a    *)
(* reference expanded as a mixin namespace, a blacklisted property.        *)
(***************************************************************************)
\* A parameter naming f, one naming g, one naming h; none with a path.
RareParamChoices ==
    { CustomConstructorParam(nF, <<>>, <<>>),
      CustomConstructorParam(nG, <<>>, <<>>),
      CustomConstructorParam(nH, <<>>, <<>>) }

RareParamLists ==
    UNION { [1..n -> RareParamChoices] : n \in 0..MaxParams }

\* A table with the constructor `new` of at most one path.
RareConstructorTables(paths) ==
    {EmptyMap} \cup
    { [p \in {path} |-> <<[ID |-> nNew, Params |-> ps]>>] :
        path \in paths, ps \in RareParamLists }

InitCtorRare ==
    /\ spec \in SchemasOver({pA, pC})
    /\ blacklist \in { {}, {<<pC, nH>>} }
    /\ constructorSpecs \in RareConstructorTables(DOMAIN spec)
    /\ ksonnetLibSHA \in Stamps
    /\ k8sSHA \in Stamps
    /\ pending = DOMAIN spec
    /\ groups = EmptyMap
    /\ hiddenGroups = EmptyMap
    /\ status = "running"
    /\ m = [depth |-> 0, lines |-> <<>>]
    /\ e = [groups |-> <<>>, hiddenGroups |-> <<>>, buffers |-> EmptyMap]
    /\ log = <<>>
    /\ pos = 1
    /\ other = [depth |-> 0, lines |-> <<>>]
    /\ buffer = <<>>
    /\ spliced = <<>>

SpecCtorRare == InitCtorRare /\ [][NextCtor]_vars

(***************************************************************************)
(* The emit methods of the tree: apiObject.emit, property.emit,            *)
(* property.emitAsRefMixin, property.emitHelper, property.emitAsTypeAlias, *)
(* apiObject.emitAsRefMixins and comments.emit, which write to the         *)
(* indentWriter directly.  A parentMixinName of these methods is a         *)
(* pointer: <<>> for nil, <<name>> otherwise.                              *)
(***************************************************************************)
\* comments.emit
RECURSIVE comments_emit(_, _)
comments_emit(st, cs) ==
    IF cs = <<>> THEN st
    ELSE comments_emit(
            writeLine(st, IF Head(cs) = <<>> THEN <<"//">> ELSE <<"// %s", Head(cs)>>),
            Tail(cs))

\* property.emitAsTypeAlias
property_emitAsTypeAlias(st, pid) ==
    LET p == Prop(st.root, pid)
    IN  IF p.ref = <<>> /\ p.itemTypes.Ref = <<>> THEN Panic(st)
        ELSE
        LET path == IF p.ref # <<>> THEN p.ref[1] ELSE p.itemTypes.Ref[1]
            parsedPath == Parse(path)
        IN  IF parsedPath.Version = <<>>
            THEN [st EXCEPT !.log =
                     Append(@, <<"Could not emit type alias for '%s'", path>>)]
            ELSE
            LET trimmedName == TrimSuffix(p.name, TypeSuffix)
                typeName    == RewriteAsIdentifier(trimmedName) \o TypeSuffix
                group       == GroupNameOf(parsedPath)
                id          == RewriteAsIdentifier(parsedPath.Kind)
            IN  writeLine(st, <<"%s:: hidden.%s.%s.%s,", typeName, group,
                                parsedPath.Version[1], id>>)

\* The wrapper line of apiObject.emitAsRefMixins.
mixinText(mixinName, paramName, fieldName, parentMixinName) ==
    IF parentMixinName = <<>>
    THEN <<"local %s(%s) = {%s+: %s},", mixinName, paramName, fieldName, paramName>>
    ELSE <<"local %s(%s) = %s({%s+: %s}),", mixinName, paramName,
           parentMixinName[1], fieldName, paramName>>

\* The bodies property.emitHelper formats for a property with a type.
typedBody(paramName, fieldName, parentMixinName) ==
    IF parentMixinName = <<>>
    THEN <<"{%s: %s}", fieldName, paramName>>
    ELSE <<"%s({%s: %s})", parentMixinName[1], fieldName, paramName>>

typedMixinBody(paramName, fieldName, parentMixinName) ==
    IF parentMixinName = <<>>
    THEN <<"{%s+: %s}", fieldName, paramName>>
    ELSE <<"%s({%s+: %s})", parentMixinName[1], fieldName, paramName>>

arrayBody(paramName, fieldName, parentMixinName) ==
    IF parentMixinName = <<>>
    THEN <<"if std.type(%s) == \"array\" then {%s: %s} else {%s: [%s]}",
           paramName, fieldName, paramName, fieldName, paramName>>
    ELSE <<"if std.type(%s) == \"array\" then %s({%s: %s}) else %s({%s: [%s]})",
           paramName, parentMixinName[1], fieldName, paramName,
           parentMixinName[1], fieldName, paramName>>

arrayMixinBody(paramName, fieldName, parentMixinName) ==
    IF parentMixinName = <<>>
    THEN <<"if std.type(%s) == \"array\" then {%s+: %s} else {%s+: [%s]}",
           paramName, fieldName, paramName, fieldName, paramName>>
    ELSE <<"if std.type(%s) == \"array\" then %s({%s+: %s}) else %s({%s+: [%s]})",
           paramName, parentMixinName[1], fieldName, paramName,
           parentMixinName[1], fieldName, paramName>>

\* property.emitHelper, apiObject.emitAsRefMixins and the latter's loop.
\* `fuel` is the room left on the stack, as in property_accept.
RECURSIVE property_emitHelper(_, _, _, _)
RECURSIVE apiObject_emitAsRefMixins(_, _, _, _, _)
RECURSIVE apiObject_emitAsRefMixinsEach(_, _, _, _, _)

property_emitHelper(st, pid, parentMixinName, fuel) ==
    LET p == Prop(st.root, pid)
    IN  IF p.kind = "typeAlias" THEN property_emitAsTypeAlias(st, pid)
        ELSE
        LET st1 == comments_emit(st, p.comments)
            setterFunctionName == ToSetterID(RewriteAsIdentifier(p.name))
            mixinFunctionName  == ToMixinID(RewriteAsIdentifier(p.name))
            paramName == RewriteAsFuncParam(p.name)
            fieldName == RewriteAsFieldKey(p.name)
            setterSignature == <<"%s(%s)::", setterFunctionName, paramName>>
            mixinSignature  == <<"%s(%s)::", mixinFunctionName, paramName>>
        IN  IF isMixinRef(p.ref)
            THEN LET got == getAPIObject(st1.root, Parse(p.ref[1]))
                 IN  IF ~got.ok THEN Panic(st1)
                     ELSE apiObject_emitAsRefMixins(st1, got.object, pid,
                                                    parentMixinName, fuel)
            ELSE IF p.ref # <<>>
            THEN writeLine(st1, <<"%s %s,", setterSignature,
                                  typedBody(paramName, fieldName, parentMixinName)>>)
            ELSE IF p.schemaType = <<>> THEN Panic(st1)
            ELSE IF p.schemaType[1] = "array"
            THEN LET st2 == writeLine(st1, <<"%s self + %s,", setterSignature,
                                arrayBody(paramName, fieldName, parentMixinName)>>)
                 IN  writeLine(comments_emit(st2, p.comments),
                         <<"%s self + %s,", mixinSignature,
                           arrayMixinBody(paramName, fieldName, parentMixinName)>>)
            ELSE IF p.schemaType[1] \in {"integer", "string", "boolean"}
            THEN writeLine(st1, <<"%s self + %s,", setterSignature,
                                  typedBody(paramName, fieldName, parentMixinName)>>)
            ELSE IF p.schemaType[1] = "object"
            THEN LET st2 == writeLine(st1, <<"%s self + %s,", setterSignature,
                                typedBody(paramName, fieldName, parentMixinName)>>)
                 IN  writeLine(comments_emit(st2, p.comments),
                         <<"%s self + %s,", mixinSignature,
                           typedMixinBody(paramName, fieldName, parentMixinName)>>)
            ELSE Panic(st1)

apiObject_emitAsRefMixinsEach(st, oid, names, mixinName, fuel) ==
    IF names = <<>> \/ st.status # "running" THEN st
    ELSE IF isSpecialProperty(Head(names))
    THEN apiObject_emitAsRefMixinsEach(st, oid, Tail(names), mixinName, fuel)
    ELSE apiObject_emitAsRefMixinsEach(
             \* pm.emitAsRefMixin(m, mixinName)
             property_emitHelper(st, oid \o <<Head(names)>>, <<mixinName>>, fuel),
             oid, Tail(names), mixinName, fuel)

apiObject_emitAsRefMixins(st, oid, pid, parentMixinName, fuel) ==
    IF fuel = 0 THEN [st EXCEPT !.status = "overflow"]
    ELSE
    LET p  == Prop(st.root, pid)
        ao == Obj(st.root, oid)
        functionName == RewriteAsIdentifier(p.name)
        paramName    == RewriteAsFuncParam(p.name)
        fieldName    == RewriteAsFieldKey(p.name)
        mixinName    == MixinName(functionName)
    IN  IF functionName \in DOMAIN VersionedAPIAt(st.root, ao.parent).apiObjects
        THEN Panic(st)
        ELSE
        LET st1 == indent(writeLine(st, <<"%s:: {", functionName>>))
            st2 == writeLine(st1, mixinText(mixinName, paramName, fieldName,
                                            parentMixinName))
            st3 == writeLine(st2, <<"mixinInstance(%s):: %s(%s),", paramName,
                                    mixinName, paramName>>)
            st4 == apiObject_emitAsRefMixinsEach(st3, oid,
                       sortAndFilterBlacklisted(ao.properties), mixinName, fuel - 1)
        IN  IF st4.status # "running" THEN st4
            ELSE writeLine(dedent(st4), <<"},">>)

\* property.emit
property_emit(st, pid, fuel) == property_emitHelper(st, pid, <<>>, fuel)

\* The loops of apiObject.emit over the constructors and over the properties.
RECURSIVE apiObject_emitConstructors(_, _, _)
apiObject_emitConstructors(st, oid, specs) ==
    IF specs = <<>> \/ st.status # "running" THEN st
    ELSE apiObject_emitConstructors(
             emitConstructor(st, oid, Head(specs).ID, Head(specs).Params),
             oid, Tail(specs))

RECURSIVE apiObject_emitEach(_, _, _, _)
apiObject_emitEach(st, oid, names, fuel) ==
    IF names = <<>> \/ st.status # "running" THEN st
    ELSE apiObject_emitEach(property_emit(st, oid \o <<Head(names)>>, fuel),
                            oid, Tail(names), fuel)

\* apiObject.emit
apiObject_emit(st, oid, fuel) ==
    LET ao == Obj(st.root, oid)
        jsonnetName == RewriteAsIdentifier(ao.name)
    IN  IF jsonnetName \in DOMAIN VersionedAPIAt(st.root, ao.parent).apiObjects
        THEN Panic(st)
        ELSE
        LET st1 == comments_emit(st, ao.comments)
            st2 == indent(writeLine(st1, <<"%s:: {", jsonnetName>>))
            st3 == IF ao.isTopLevel
                   THEN writeLine(st2, <<"local kind = {kind: \"%s\"},", ao.name>>)
                   ELSE st2
            st4 == apiObject_emitConstructors(st3, oid, emitConstructors(st.root, oid))
            kept  == sortAndFilterBlacklisted(ao.properties)
            plain == { k \in DOMAIN ao.properties :
                         ~(isSpecialProperty(ao.properties[k].name)
                           \/ isMixinRef(ao.properties[k].ref)) }
            mixin == { k \in DOMAIN ao.properties : isMixinRef(ao.properties[k].ref) }
            st5 == apiObject_emitEach(st4, oid, Among(kept, plain), fuel)
            st6 == indent(writeLine(st5, <<"mixin:: {">>))
            st7 == apiObject_emitEach(st6, oid, Among(kept, mixin), fuel)
            st8 == writeLine(dedent(st7), <<"},">>)
        IN  IF st4.status # "running" THEN st4
            ELSE IF st5.status # "running" THEN st5
            ELSE IF st7.status # "running" THEN st7
            ELSE writeLine(dedent(st8), <<"},">>)

\* The definitions a schema of chained references may give each name: the
\* property of B that refers to C is named as the property of A that refers
\* to B, or differently.
ChainCatalog(path) ==
    CASE path = pA ->
           { SchemaDef(t, pr) :
               t \in {TopLevelPlain, NoTopLevelSpecs},
               pr \in { (nF :> PropRef(pB)),
                        (nF :> PropRef(pB)) @@ (nG :> PropTyped("string")),
                        (nF :> PropRef(pB)) @@ (nG :> PropArrayOf(pB)) } }
      [] path = pB ->
           { SchemaDef(NoTopLevelSpecs, pr) :
               pr \in { (nF :> PropRef(pC)),
                        (nG :> PropRef(pC)),
                        (nF :> PropRef(pQ)) @@ (nKind :> PropTyped("string")),
                        (nF :> PropTyped("object")) @@ (nH :> PropTyped("array")) } }
      [] path = pC ->
           { SchemaDef(t, pr) :
               t \in {NoTopLevelSpecs, TopLevelPlain},
               pr \in { (nH :> PropTyped("string")),
                        (nF :> PropTyped("integer")),
                        (nH :> PropRef(pA)) } }

ChainSchemas ==
    UNION { { s \in [P -> UNION {ChainCatalog(p) : p \in P}] :
                \A p \in P : s[p] \in ChainCatalog(p) } :
            P \in SUBSET {pA, pB, pC} }

InitChain ==
    /\ spec \in ChainSchemas
    /\ blacklist \in { {}, {<<pB, nF>>} }
    /\ constructorSpecs = EmptyMap
    /\ ksonnetLibSHA \in Stamps
    /\ k8sSHA \in Stamps
    /\ pending = DOMAIN spec
    /\ groups = EmptyMap
    /\ hiddenGroups = EmptyMap
    /\ status = "running"
    /\ m = [depth |-> 0, lines |-> <<>>]
    /\ e = [groups |-> <<>>, hiddenGroups |-> <<>>, buffers |-> EmptyMap]
    /\ log = <<>>
    /\ pos = 1
    /\ other = [depth |-> 0, lines |-> <<>>]
    /\ buffer = <<>>
    /\ spliced = <<>>

\* The objects of the tree, in the order versionedAPI.emit takes them.
EmitJobs(r) ==
    LET visits == Visits(r)
        J[i \in 0..Len(visits)] ==
            IF i = 0 THEN <<>>
            ELSE IF visits[i].visit # "apiObject" THEN J[i - 1]
            ELSE Append(J[i - 1], visits[i].at)
    IN  J[Len(visits)]

\* object.emit(m), in versionedAPI.emit's loop.
EmitAPIObject ==
    /\ status = "running"
    /\ pending = {}
    /\ pos <= Len(EmitJobs(TheRoot))
    /\ \E oid \in {EmitJobs(TheRoot)[pos]} :
          LET st == apiObject_emit(TheVisit, oid, StackRoom(TheRoot))
          IN  Visited(st) /\ status' = st.status

NextChain ==
    \/ AddDefinition
    \/ EmitAPIObject

SpecChain == InitChain /\ [][NextChain]_vars

(***************************************************************************)
(* What a run leaves: the document Emit returns, or the fact that it       *)
(* aborted.                                                                *)
(***************************************************************************)
Finished == status \in {"done", "fatal", "overflow"}

\* newRoot has returned: every definition was added and none panicked.
Built == pending = {} /\ status # "fatal"

\* The bytes of a buffer: each line's indentation and text.
Rendered(lines) ==
    [i \in 1..Len(lines) |-> [depth |-> lines[i].depth, text |-> lines[i].text]]

\* The document of a finished run.
Doc == m.lines

Outcome(st) ==
    IF st.status = "done" THEN <<"document", Rendered(st.m.lines)>>
    ELSE <<"aborted">>

\* The run that ranges over every map in ascending order of its keys; the
\* definitions in one fixed order.
RECURSIVE OrderedBuild(_, _)
OrderedBuild(r, paths) ==
    IF paths = <<>> THEN [ok |-> TRUE, root |-> r]
    ELSE LET path == Head(paths)
             res  == addDefinition(r, path, spec[path],
                                   SortNames(DOMAIN spec[path].Properties))
         IN  IF res.ok THEN OrderedBuild(res.root, Tail(paths)) ELSE res

RECURSIVE RunVisits(_, _)
RunVisits(st, visits) ==
    IF visits = <<>> \/ st.status # "running" THEN st
    ELSE LET v == Head(visits)
             st1 == CASE v.visit = "apiObject"    -> apiObject_accept(st, v.at)
                      [] v.visit = "versionedAPI" -> visitVersionedAPI(st, v.at)
                      [] v.visit = "group"        -> visitGroup(st, v.at)
                      [] v.visit = "root"         ->
                            LET done == visitRoot(st, ksonnetLibSHA, k8sSHA)
                            IN  IF done.status = "running"
                                THEN [done EXCEPT !.status = "done"] ELSE done
         IN  RunVisits(st1, Tail(visits))

OrderedOutcome ==
    LET paths == CHOOSE o \in Orders(DOMAIN spec) : TRUE
        built == OrderedBuild([groups |-> EmptyMap, hiddenGroups |-> EmptyMap], paths)
    IN  IF ~built.ok THEN <<"aborted">>
        ELSE Outcome(RunVisits(
                 [root |-> built.root,
                  m |-> [depth |-> 0, lines |-> <<>>],
                  e |-> [groups |-> <<>>, hiddenGroups |-> <<>>, buffers |-> EmptyMap],
                  status |-> "running", log |-> <<>>],
                 Visits(built.root)))

(***************************************************************************)
(* C1.  Determinism: whatever the order in which newRoot ranges over the   *)
(* definitions and addDefinition over a definition's properties, a         *)
(* finished run leaves what the run in ascending order leaves: the same    *)
(* document, or an abort in both.                                          *)
(***************************************************************************)
C1_Deterministic == Finished => Outcome(TheVisit) = OrderedOutcome

\* The definitions newRoot files in the tree, and those it has added so far.
Versioned == { p \in DOMAIN spec : Parse(p).Version # <<>> }
Added     == Versioned \ pending

IsTopLevel(p) == Len(spec[p].TopLevelSpecs) > 0

\* The places in the tree of the objects made from definition p.
PlacesOf(p) == { oid \in ObjectsOf(TheRoot) : Obj(TheRoot, oid).parsedName = Parse(p) }

\* Two definitions of one kind in one version of one group of one tree.
SameKind(p1, p2) ==
    /\ p1 # p2
    /\ IsTopLevel(p1) = IsTopLevel(p2)
    /\ GroupNameOf(Parse(p1)) = GroupNameOf(Parse(p2))
    /\ Parse(p1).Version = Parse(p2).Version
    /\ Parse(p1).Kind = Parse(p2).Kind

\* The index in the document of the line that opens the hidden tree.
HiddenAt ==
    CHOOSE i \in 1..Len(Doc) : Doc[i].text = <<"local hidden = {">>

\* The lines of the document that open the block of the object at oid.
OpensObject(oid) ==
    { i \in 1..Len(Doc) :
        Doc[i].by = oid /\ Doc[i].text = <<"%s:: {", RewriteAsIdentifier(oid[4])>> }

(***************************************************************************)
(* C5.  Visible/hidden partition: once newRoot has returned, every         *)
(* definition with a version has exactly one object in the tree, in the    *)
(* visible tree when it has a top-level spec and in the hidden tree when   *)
(* it has none; and the document opens that object's block exactly once,   *)
(* before the line `local hidden = {` for a visible object and after it    *)
(* for a hidden one.                                                       *)
(***************************************************************************)
C5_Partition ==
    /\ Built =>
          \A p \in Versioned :
              /\ Cardinality(PlacesOf(p)) = 1
              /\ \A oid \in PlacesOf(p) : oid[1] = ~IsTopLevel(p)
    /\ status = "done" =>
          \A p \in Versioned : \A oid \in PlacesOf(p) :
              /\ Cardinality(OpensObject(oid)) = 1
              /\ \A i \in OpensObject(oid) : (i > HiddenAt) = ~IsTopLevel(p)

C5_Witness ==
    /\ status = "done"
    /\ \E p1, p2 \in Versioned :
          /\ IsTopLevel(p1) /\ ~IsTopLevel(p2)
          /\ \E o1 \in PlacesOf(p1), o2 \in PlacesOf(p2) :
                \E i \in OpensObject(o1), j \in OpensObject(o2) : i < HiddenAt /\ HiddenAt < j

(***************************************************************************)
(* C6.  Duplicate kind is fatal: when two definitions of the same kind in  *)
(* the same version of the same group of the same tree have both been      *)
(* added, the run has aborted; a tree newRoot returns holds no two such    *)
(* definitions, and each of its objects is filed under its own kind.       *)
(***************************************************************************)
C6_DuplicateKindFatal ==
    /\ \A p1, p2 \in Added : SameKind(p1, p2) => status = "fatal"
    /\ Built => \A p1, p2 \in Versioned : ~SameKind(p1, p2)
    /\ \A oid \in ObjectsOf(TheRoot) : Obj(TheRoot, oid).name = oid[4]

C6_Witness ==
    /\ status = "fatal"
    /\ \E p1, p2 \in Added : SameKind(p1, p2)
    /\ \A p \in DOMAIN spec : nFType \notin DOMAIN spec[p].Properties

\* Property f of a definition is one addDefinition makes a type alias for.
NeedsAlias(prop) ==
    \/ isMixinRef(prop.Ref)
    \/ prop.Type = <<"array">> /\ prop.Items.Ref # <<>>

\* Definition p has a property of its own named as the alias of another.
AliasCollides(p) ==
    \E f \in DOMAIN spec[p].Properties :
        /\ NeedsAlias(spec[p].Properties[f])
        /\ (f \o TypeSuffix) \in DOMAIN spec[p].Properties

(***************************************************************************)
(* C9.  Alias collision is fatal: once a definition that has a property f  *)
(* needing a type alias and a property of its own named fType has been     *)
(* added, the run has aborted, in whatever order its properties were       *)
(* added.                                                                  *)
(***************************************************************************)
C9_AliasCollisionFatal ==
    \A p \in Added : AliasCollides(p) => status = "fatal"

\* The names sortAndFilterBlacklisted returns for the object at oid.
Sorted(oid) == sortAndFilterBlacklisted(Obj(TheRoot, oid).properties)

Stripped(name) == TrimSuffix(name, TypeSuffix)

OpenLines(n) ==
    { i \in 1..Len(Doc) : Len(Doc[i].by) = n /\ Doc[i].text[1] = "%s:: {" }

\* Two blocks of one level with the same parent: of one tree, one group, one
\* versioned API.
Siblings(n, i, j) == SubSeq(Doc[i].by, 1, n - 1) = SubSeq(Doc[j].by, 1, n - 1)

(***************************************************************************)
(* C2.  Sort invariant: in the document, of two Group blocks of one tree   *)
(* the earlier has the lesser group name, of two VersionedAPI blocks of    *)
(* one Group the earlier has the lesser version, and of two APIObject      *)
(* blocks of one VersionedAPI the earlier has the lesser kind name.        *)
(***************************************************************************)
C2_SortInvariant ==
    status = "done" =>
        \A n \in {2, 3, 4} : \A i, j \in OpenLines(n) :
            (i < j /\ Siblings(n, i, j)) => LexLess(Doc[i].by[n], Doc[j].by[n])

C2_Witness ==
    /\ status = "done"
    /\ \E i, j \in OpenLines(2) : i < j /\ Siblings(2, i, j)
    /\ \E i, j \in OpenLines(3) : i < j /\ Siblings(3, i, j)

\* The places of the properties of the tree.
PropsOf(r) ==
    UNION { { oid \o <<k>> : k \in DOMAIN Obj(r, oid).properties } :
            oid \in ObjectsOf(r) }

\* The properties the customization table blacklists, and their type aliases.
Blacklisted ==
    { pid \in PropsOf(TheRoot) :
        LET pm == Prop(TheRoot, pid)
        IN  \/ <<pm.path, pm.name>> \in blacklist
            \/ pm.kind = "typeAlias" /\ <<pm.path, Stripped(pm.name)>> \in blacklist }

(***************************************************************************)
(* C4.  Blacklist exclusion: no line of the document was written for a     *)
(* blacklisted property or for its type alias: no setter, no mixin         *)
(* function, no mixin namespace, no alias, in the owning object's block    *)
(* or in an expansion of that object.                                      *)
(***************************************************************************)
C4_BlacklistExclusion ==
    status = "done" =>
        \A i \in 1..Len(Doc) : \A pid \in Blacklisted :
            Doc[i].by # pid /\ Doc[i].by # CommentsKey(pid)

\* A blacklisted mixin reference of an object that the document both
\* renders and expands under a reference to it.
C4_Witness ==
    /\ status = "done"
    /\ \E pid \in Blacklisted :
          LET oid == SubSeq(pid, 1, 4)
          IN  /\ isMixinRef(Prop(TheRoot, pid).ref)
              /\ OpensObject(oid) # {}
              /\ \E q \in PropsOf(TheRoot) :
                    /\ isMixinRef(Prop(TheRoot, q).ref)
                    /\ Prop(TheRoot, q).kind = "method"
                    /\ getAPIObject(TheRoot, Parse(Prop(TheRoot, q).ref[1])).object = oid
                    /\ \E i \in 1..Len(Doc) : Doc[i].by = q

\* The chains A.p -> B.q -> C of mixin references the emission follows.
IsMixinStep(pid, target) ==
    LET pm == Prop(TheRoot, pid)
    IN  /\ pm.kind = "method"
        /\ isMixinRef(pm.ref)
        /\ pm.name \in KeptProperties(Obj(TheRoot, SubSeq(pid, 1, 4)).properties)
        /\ getAPIObject(TheRoot, Parse(pm.ref[1])).ok
        /\ getAPIObject(TheRoot, Parse(pm.ref[1])).object = target

Chains ==
    { c \in PropsOf(TheRoot) \X PropsOf(TheRoot) \X ObjectsOf(TheRoot) :
        /\ IsMixinStep(c[1], SubSeq(c[2], 1, 4))
        /\ IsMixinStep(c[2], c[3])
        /\ ~isSpecialProperty(c[2][5]) }

\* The wrapper of the q level composed with the wrapper of the p level.
ComposedWrapper(p, q) ==
    <<"local %s(%s) = %s({%s+: %s}),", MixinName(RewriteAsIdentifier(q)),
      RewriteAsFuncParam(q), MixinName(RewriteAsIdentifier(p)),
      RewriteAsFieldKey(q), RewriteAsFuncParam(q)>>

\* Lines i..l of the document are the namespace written for the property at pid.
Namespace(pid, i, l) ==
    /\ i < l
    /\ Doc[i].by = pid /\ Doc[i].text = <<"%s:: {", RewriteAsIdentifier(pid[5])>>
    /\ Doc[l].by = pid /\ Doc[l].text = <<"},">>
    /\ \A x \in (i + 1)..(l - 1) : Doc[x].by # pid \/ Doc[x].text # <<"},">>

(***************************************************************************)
(* C7.  Mixin recursion depth matches reference depth: for a chain         *)
(* A.p -> B.q -> C of mixin references, the document holds a namespace     *)
(* for p that holds a namespace for q, whose wrapper applies the wrapper   *)
(* of p to {q+: value}, and that holds an entry for each non-special,      *)
(* non-blacklisted property of C.                                          *)
(***************************************************************************)
C7_NestedMixins ==
    status = "done" =>
        \A c \in Chains :
            \E i, l \in 1..Len(Doc) :
                /\ Namespace(c[1], i, l)
                /\ \E j, k \in (i + 1)..(l - 1) :
                      /\ Namespace(c[2], j, k)
                      /\ \E x \in (j + 1)..(k - 1) :
                            Doc[x].text = ComposedWrapper(c[1][5], c[2][5])
                      /\ \A r \in KeptProperties(Obj(TheRoot, c[3]).properties) :
                            ~isSpecialProperty(r) =>
                                \E x \in (j + 1)..(k - 1) : Doc[x].by = c[3] \o <<r>>

\* The tree with every property's qualifier as newPropertyMethod and
\* newPropertyTypeAlias leave it.
AsConstructed(r) ==
    LET Properties(ps) ==
            [n \in DOMAIN ps |-> [ps[n] EXCEPT !.parentMixinName = <<>>]]
        Objects(aos) ==
            [k \in DOMAIN aos |->
                [aos[k] EXCEPT !.properties = Properties(aos[k].properties)]]
        Versions(vas) ==
            [v \in DOMAIN vas |->
                [vas[v] EXCEPT !.apiObjects = Objects(vas[v].apiObjects)]]
        Groups(gs) ==
            [g \in DOMAIN gs |->
                [gs[g] EXCEPT !.versionedAPIs = Versions(gs[g].versionedAPIs)]]
    IN  [groups |-> Groups(r.groups), hiddenGroups |-> Groups(r.hiddenGroups)]

\* The rendering of the object at oid by a visitor that has rendered nothing,
\* from the tree as newRoot returned it.
Standalone(oid) ==
    apiObject_accept(
        [root |-> AsConstructed(TheRoot),
         m |-> [depth |-> 0, lines |-> <<>>],
         e |-> [groups |-> <<>>, hiddenGroups |-> <<>>, buffers |-> EmptyMap],
         status |-> "running", log |-> <<>>], oid).e.buffers[oid]

(***************************************************************************)
(* C8.  The mixin qualifier is call context only: once newRoot has         *)
(* returned no step changes the tree, so every property keeps the          *)
(* parentMixinName it was constructed with, and the block rendered for an  *)
(* object is the block a fresh visitor renders for it, whatever was        *)
(* expanded before.                                                        *)
(***************************************************************************)
C8_QualifierIsContext ==
    /\ [][pending = {} => (groups' = groups /\ hiddenGroups' = hiddenGroups)]_vars
    /\ [](\A pid \in PropsOf(TheRoot) : Prop(TheRoot, pid).parentMixinName = <<>>)
    /\ [](status \in {"running", "done"} =>
            \A oid \in ObjectsOf(TheRoot) :
                oid \in DOMAIN e.buffers => e.buffers[oid] = Standalone(oid))

\* An object rendered after it was expanded under a reference to it.
C8_Witness ==
    /\ status = "done"
    /\ \E q \in PropsOf(TheRoot) :
          LET pm == Prop(TheRoot, q)
          IN  /\ IsMixinStep(q, getAPIObject(TheRoot, Parse(pm.ref[1])).object)
              /\ LET oid == getAPIObject(TheRoot, Parse(pm.ref[1])).object
                  IN  /\ LexLess(q[4], oid[4])
                      /\ SubSeq(q, 1, 3) = SubSeq(oid, 1, 3)
                      /\ \E r \in DOMAIN Obj(TheRoot, oid).properties :
                            /\ Prop(TheRoot, oid \o <<r>>).ref # <<>>
                            /\ \E i \in 1..Len(Doc) : Doc[i].by = oid \o <<r>>

\* The constructors built so far, the last of them the one just built.
BuiltJobs ==
    IF pending = {} THEN SubSeq(ConstructorJobs(TheRoot), 1, pos - 1) ELSE <<>>

\* A parameter of the job that has no explicit path and names no property of
\* the object.
NamesNoProperty(job) ==
    \E k \in 1..Len(job.spec.Params) :
        /\ job.spec.Params[k].RelativePath = <<>>
        /\ job.spec.Params[k].ID \notin DOMAIN Obj(TheRoot, job.object).properties

\* The setters an object has: one for each property kept that is neither
\* special nor a mixin reference.
SettersOf(oid) ==
    LET ps == Obj(TheRoot, oid).properties
    IN  { ToSetterID(RewriteAsIdentifier(ps[k].name)) :
            k \in { x \in KeptProperties(ps) :
                       /\ ps[x].kind = "method"
                       /\ ~isSpecialProperty(ps[x].name)
                       /\ ~isMixinRef(ps[x].ref) } }

\* A parameter of the job whose explicit path is no setter of the object.
PathDoesNotExist(job) ==
    \E k \in 1..Len(job.spec.Params) :
        /\ job.spec.Params[k].RelativePath # <<>>
        /\ job.spec.Params[k].RelativePath[1] \notin SettersOf(job.object)

LastLine ==
    LET job == BuiltJobs[Len(BuiltJobs)]
        key == ConstructorKey(newConstructor(TheRoot, job.object, job.spec))
    IN  IF key \in DOMAIN e.buffers THEN e.buffers[key][Len(e.buffers[key])]
        ELSE m.lines[Len(m.lines)]

\* The terms of the body that come after the default setters.
ParamSetters(line) ==
    LET setters == line.text[4]
        n == Len(BuiltJobs[Len(BuiltJobs)].spec.Params)
    IN  SubSeq(setters, Len(setters) - n + 1, Len(setters))

VisitAt(oid) ==
    CHOOSE i \in 1..Len(Visits(TheRoot)) :
        Visits(TheRoot)[i] = [visit |-> "apiObject", at |-> oid]

Accepted(oid)     == pending = {} /\ pos > VisitAt(oid)
JustAccepted(oid) == pending = {} /\ pos = VisitAt(oid) + 1

\* The path an alias stands for: its reference, or the reference of its
\* array's items when it has none.
AliasTarget(p) == IF p.ref # <<>> THEN p.ref[1] ELSE p.itemTypes.Ref[1]

\* The aliases of the object at oid whose target has no version.
VersionlessAliases(oid) ==
    { k \in DOMAIN Obj(TheRoot, oid).properties :
        LET p == Obj(TheRoot, oid).properties[k]
        IN  /\ p.kind = "typeAlias"
            /\ (p.ref # <<>> \/ p.itemTypes.Ref # <<>>)
            /\ Parse(AliasTarget(p)).Version = <<>> }

\* The diagnostic of visitTypeAlias for a path is in the log.
Diagnosed(path) ==
    \E i \in 1..Len(log) : log[i] = <<"Could not emit type alias for '%s'", path>>

\* Some buffer holds a line first written to the buffer of key.
HasLine(key) ==
    \E b \in DOMAIN e.buffers : \E i \in 1..Len(e.buffers[b]) : e.buffers[b][i].by = key

\* The buffer of the property at pid is part of the block of its object.
InBlock(oid, pid) ==
    /\ pid \in DOMAIN e.buffers
    /\ oid \in DOMAIN e.buffers
    /\ \A i \in 1..Len(e.buffers[pid]) :
           \E j \in 1..Len(e.buffers[oid]) : e.buffers[oid][j] = e.buffers[pid][i]

\* The properties of the object at oid, other than the alias k, that the
\* object's block is to hold: those the schema's version does not blacklist,
\* set by a setter of their own.
OtherProperties(oid, k) ==
    { k2 \in DOMAIN Obj(TheRoot, oid).properties \ {k} :
        LET p == Obj(TheRoot, oid).properties[k2]
        IN  /\ k2 \in KeptProperties(Obj(TheRoot, oid).properties)
            /\ ~isSpecialProperty(p.name)
            /\ ~isMixinRef(p.ref) }

RewriteCollisions(oid) ==
    { k \in DOMAIN VersionedAPIAt(TheRoot, SubSeq(oid, 1, 3)).apiObjects :
        k # oid[4] /\ k = RewriteAsIdentifier(Obj(TheRoot, oid).name) }

(***************************************************************************)
(* C12.  Object rewrite collision: once the accept of an object has        *)
(* returned whose versionedAPI holds another object of the kind that the   *)
(* object's own kind is rewritten to, the run has aborted.                 *)
(***************************************************************************)
C12_RewriteCollisionFatal ==
    \A oid \in ObjectsOf(TheRoot) :
        (Accepted(oid) /\ RewriteCollisions(oid) # {}) => status = "fatal"

\* The properties of the object at oid that property.accept expands as a
\* mixin namespace.
MixinProperties(oid) ==
    { k \in KeptProperties(Obj(TheRoot, oid).properties) :
        LET p == Obj(TheRoot, oid).properties[k]
        IN  p.kind = "method" /\ isMixinRef(p.ref) }

\* The versionedAPI of the object at oid files an object under the rewritten
\* name of the object's property k.
NameTakenBesideOwner(oid, k) ==
    RewriteAsIdentifier(Obj(TheRoot, oid).properties[k].name)
        \in DOMAIN VersionedAPIAt(TheRoot, SubSeq(oid, 1, 3)).apiObjects

(***************************************************************************)
(* C13.  Mixin function-name collision: once the accept of an object A     *)
(* has returned that has a property expanded as a mixin namespace whose    *)
(* rewritten name is the kind of an object of A's own versionedAPI, the    *)
(* run has aborted, wherever the object the property refers to is filed.   *)
(***************************************************************************)
C13_MixinCollisionFatal ==
    \A oid \in ObjectsOf(TheRoot) : \A k \in MixinProperties(oid) :
        (Accepted(oid) /\ NameTakenBesideOwner(oid, k)) => status = "fatal"

\* The lines of the document that are a constructor of the object at oid.
ConstructorLines(oid) ==
    { i \in 1..Len(Doc) :
        /\ Len(Doc[i].by) = 6
        /\ SubSeq(Doc[i].by, 1, 4) = oid
        /\ Doc[i].by[6] = "constructor" }

(***************************************************************************)
(* C14.  Constructor seeding: in a finished document the block of every    *)
(* object holds at least one constructor, and the body of each of its      *)
(* constructors begins with the apiVersion and kind setters when the       *)
(* object is top-level and with `{}` when it is not.                       *)
(***************************************************************************)
C14_ConstructorSeeding ==
    status = "done" =>
        \A oid \in ObjectsOf(TheRoot) :
            /\ ConstructorLines(oid) # {}
            /\ \A i \in ConstructorLines(oid) :
                   LET setters == Doc[i].text[4]
                   IN  IF Obj(TheRoot, oid).isTopLevel
                       THEN /\ Len(setters) >= 2
                            /\ SubSeq(setters, 1, 2) = specialPropertiesList
                       ELSE /\ Len(setters) >= 1
                            /\ setters[1] = <<"{}">>

\* The properties of the object at oid that have a declared type and no
\* reference, and are rendered in the object's block.
TypedProperties(oid) ==
    { k \in KeptProperties(Obj(TheRoot, oid).properties) :
        LET p == Obj(TheRoot, oid).properties[k]
        IN  /\ p.kind = "method"
            /\ p.ref = <<>>
            /\ p.schemaType # <<>>
            /\ ~isSpecialProperty(p.name) }

\* The lines of the document first written to the buffer of key.
LinesBy(key) == { i \in 1..Len(Doc) : Doc[i].by = key }

(***************************************************************************)
(* C15.  Per-type property rendering: in a finished document a property    *)
(* with a declared type and no reference has two functions, a setter and   *)
(* a mixin, when the type is array or object, and one setter when it is    *)
(* string, boolean or integer.                                             *)
(***************************************************************************)
C15_TypedPropertyFunctions ==
    status = "done" =>
        \A oid \in ObjectsOf(TheRoot) : \A k \in TypedProperties(oid) :
            Cardinality(LinesBy(oid \o <<k>>)) =
                IF Obj(TheRoot, oid).properties[k].schemaType[1] \in {"array", "object"}
                THEN 2 ELSE 1

\* depth units of indentation, the text, and a newline.
RenderedLine(depth, text) == [k \in 1..(2 * depth) |-> 32] \o text \o <<10>>

\* The texts of a sequence, one after the other.
Joined(texts) ==
    LET F[k \in 0..Len(texts)] == IF k = 0 THEN <<>> ELSE F[k - 1] \o texts[k]
    IN  F[Len(texts)]

\* The rendering of the records `lines`, each behind `units` more units.
RenderedBehind(lines, units) ==
    Joined([k \in 1..Len(lines) |->
               [j \in 1..(2 * units) |-> 32]
                   \o RenderedLine(lines[k].depth, lines[k].text)])

NoneNegative(lines) == \A k \in 1..Len(lines) : lines[k].depth >= 0

NextVisit == Visits(TheRoot)[pos].at

\* The visit state in which apiObject.accept calls visitAPIObject for the
\* object at oid: its comments and properties accepted.
BeforeVisitAPIObject(oid) ==
    LET ao == Obj(TheRoot, oid)
    IN  apiObject_acceptEach(
            visitComments(TheVisit, CommentsKey(oid), ao.comments), oid,
            sortAndFilterBlacklisted(ao.properties), StackRoom(TheRoot))

\* The buffers visitAPIObject reads for the object at oid.
ReadByVisitAPIObject(oid) ==
    {CommentsKey(oid)} \cup
    { oid \o <<k>> : k \in { k2 \in KeptProperties(Obj(TheRoot, oid).properties) :
                               ~isSpecialProperty(Obj(TheRoot, oid).properties[k2].name) } }

\* The visit state in which refMixinAPIObject.accept calls
\* visitRefMixinAPIObject for property k of the object at oid, in that
\* object's accept: [ok, st, object], object the place of the object referred
\* to, ok FALSE when the accept ends before the call.
BeforeVisitRefMixin(oid, k) ==
    LET ao    == Obj(TheRoot, oid)
        names == sortAndFilterBlacklisted(ao.properties)
        at    == CHOOSE i \in 1..Len(names) : names[i] = k
        pid   == oid \o <<k>>
        st1   == apiObject_acceptEach(
                     visitComments(TheVisit, CommentsKey(oid), ao.comments), oid,
                     SubSeq(names, 1, at - 1), StackRoom(TheRoot))
        st2   == visitComments(st1, CommentsKey(pid), ao.properties[k].comments)
        got   == getAPIObject(st2.root, Parse(ao.properties[k].ref[1]))
    IN  IF st1.status # "running" \/ ~got.ok
        THEN [ok |-> FALSE, st |-> st1, object |-> oid]
        ELSE LET st3 == refMixinAPIObject_acceptEach(st2,
                            newRefMixinAPIObject(got.object, pid),
                            sortAndFilterBlacklisted(Obj(st2.root, got.object).properties),
                            StackRoom(TheRoot) - 1)
             IN  [ok |-> st3.status = "running", st |-> st3, object |-> got.object]

\* The properties of the object referred to whose buffers
\* visitRefMixinAPIObject looks up, and those among them that
\* refMixinAPIObject.accept has visited.
LookedUpByVisitRefMixin(object) ==
    KeptProperties(Obj(TheRoot, object).properties)

AcceptedForRefMixin(object) ==
    { k \in KeptProperties(Obj(TheRoot, object).properties) :
        ~isSpecialProperty(Obj(TheRoot, object).properties[k].name) }

\* The places of the groups and of the versionedAPIs of the tree.
GroupsOf(r) ==
    UNION { { <<hid, g>> : g \in DOMAIN GroupSetOf(r, hid) } : hid \in BOOLEAN }

VersionedAPIsOf(r) ==
    UNION { { gid \o <<v>> : v \in DOMAIN GroupSetOf(r, gid[1])[gid[2]].versionedAPIs } :
            gid \in GroupsOf(r) }

\* The buffers visitVersionedAPI and visitGroup read, when one of the two
\* is the visit made next, are there.
ContainerReadsFound ==
    /\ Visiting("versionedAPI") =>
          \A k \in DOMAIN VersionedAPIAt(TheRoot, NextVisit).apiObjects :
              NextVisit \o <<k>> \in DOMAIN e.buffers
    /\ Visiting("group") =>
          \A v \in DOMAIN GroupSetOf(TheRoot, NextVisit[1])[NextVisit[2]].versionedAPIs :
              NextVisit \o <<v>> \in DOMAIN e.buffers

\* The buffers visitAPIObject reads, when an object's accept is made next
\* and reaches it, are there.
ObjectReadsFound ==
    Visiting("apiObject") =>
        LET st == BeforeVisitAPIObject(NextVisit)
        IN  st.status = "running" =>
                ReadByVisitAPIObject(NextVisit) \subseteq DOMAIN st.e.buffers

\* In a finished run every comment block, property, object and versionedAPI
\* visited has a buffer under its own key.
NodesBuffered ==
    /\ \A vid \in VersionedAPIsOf(TheRoot) : vid \in DOMAIN e.buffers
    /\ \A oid \in ObjectsOf(TheRoot) :
          /\ oid \in DOMAIN e.buffers
          /\ CommentsKey(oid) \in DOMAIN e.buffers
          /\ \A k \in KeptProperties(Obj(TheRoot, oid).properties) :
                /\ oid \o <<k>> \in DOMAIN e.buffers
                /\ Obj(TheRoot, oid).properties[k].kind = "method" =>
                       CommentsKey(oid \o <<k>>) \in DOMAIN e.buffers

(***************************************************************************)
(* C17.  Post-order buffering, as stated: whenever visitVersionedAPI,      *)
(* visitGroup, visitAPIObject or visitRefMixinAPIObject looks up the       *)
(* buffer of a child, e.buffers has it; and in a finished run every node   *)
(* visited, the groups included, has a buffer under its own key.           *)
(***************************************************************************)
C17_EveryReadFound ==
    /\ ContainerReadsFound
    /\ ObjectReadsFound
    /\ Visiting("apiObject") =>
          \A k \in MixinProperties(NextVisit) :
              LET b == BeforeVisitRefMixin(NextVisit, k)
              IN  b.ok => \A k2 \in LookedUpByVisitRefMixin(b.object) :
                              b.object \o <<k2>> \in DOMAIN b.st.e.buffers
    /\ status = "done" =>
          /\ NodesBuffered
          /\ \A gid \in GroupsOf(TheRoot) : gid \in DOMAIN e.buffers

(***************************************************************************)
(* C17, amended.  Whenever visitVersionedAPI, visitGroup or visitAPIObject *)
(* reads the buffer of a child, e.buffers has it.  visitRefMixinAPIObject  *)
(* looks up every property the filter keeps of the object referred to and  *)
(* finds the buffer of each one that refMixinAPIObject.accept visited,     *)
(* which leaves out `kind` and `apiVersion`: for those it tests for the    *)
(* entry and skips them when there is none.  In a finished run every       *)
(* comment block, property, object and versionedAPI visited has a buffer   *)
(* under its own key; a group has none, visitGroup writing to e.groups or  *)
(* e.hiddenGroups.                                                         *)
(***************************************************************************)
C17_ReadsFoundWhereVisited ==
    /\ ContainerReadsFound
    /\ ObjectReadsFound
    /\ Visiting("apiObject") =>
          \A k \in MixinProperties(NextVisit) :
              LET b == BeforeVisitRefMixin(NextVisit, k)
              IN  b.ok => \A k2 \in AcceptedForRefMixin(b.object) :
                              b.object \o <<k2>> \in DOMAIN b.st.e.buffers
    /\ status = "done" =>
          /\ NodesBuffered
          /\ \A gid \in GroupsOf(TheRoot) : gid \notin DOMAIN e.buffers

\* An object's accept is next that expands a property referring to an
\* object not yet visited, whose `kind` has no buffer when
\* visitRefMixinAPIObject looks it up and whose other property has one.
C17_Witness ==
    /\ Visiting("apiObject")
    /\ \E k \in MixinProperties(NextVisit) :
          LET b == BeforeVisitRefMixin(NextVisit, k)
          IN  /\ b.ok
              /\ b.object \o <<nKind>> \notin DOMAIN b.st.e.buffers
              /\ nKind \in LookedUpByVisitRefMixin(b.object)
              /\ AcceptedForRefMixin(b.object) # {}

\* The first line of the document after line i that the buffer of key was
\* given with the text `text`; 0 when there is none.
FirstAfter(i, key, text) ==
    LET S == { j \in (i + 1)..Len(Doc) : Doc[j].by = key /\ Doc[j].text = text }
    IN  IF S = {} THEN 0 ELSE CHOOSE j \in S : \A j2 \in S : j <= j2

\* The last line of the document written to the buffer of key.
LastBy(key) == CHOOSE j \in LinesBy(key) : \A j2 \in LinesBy(key) : j2 <= j

(***************************************************************************)
(* C18.  Nesting indentation: in a finished document the opening line of   *)
(* a version block is one level deeper than that of its group and the      *)
(* opening line of an object block one level deeper than that of its       *)
(* version; every line between the opening line of an object block and     *)
(* its `mixin:: {` line is one level deeper than the opening line; and     *)
(* the closing line of a group, version or object block has the depth of   *)
(* its opening line.                                                       *)
(***************************************************************************)
C18_OneLevelDeeper ==
    status = "done" =>
        /\ \A n \in {3, 4} : \A i \in OpenLines(n) : \A j \in OpenLines(n - 1) :
               Doc[j].by = SubSeq(Doc[i].by, 1, n - 1) =>
                   Doc[i].depth = Doc[j].depth + 1
        /\ \A i \in OpenLines(4) :
               \A j \in (i + 1)..(FirstAfter(i, Doc[i].by, <<"mixin:: {">>) - 1) :
                   Doc[j].depth = Doc[i].depth + 1
        /\ \A n \in {2, 3, 4} : \A i \in OpenLines(n) :
               /\ Doc[LastBy(Doc[i].by)].text = <<"},">>
               /\ Doc[LastBy(Doc[i].by)].depth = Doc[i].depth

\* root.accept has made its last visit, visitRoot.
RootVisited == pending = {} /\ pos > Len(Visits(TheRoot))

\* The document has a line of the header with this format.
HeaderLine(format) == \E i \in 1..Len(Doc) : Doc[i].text[1] = format

(***************************************************************************)
(* C19.  Provenance stamps are independently optional: whichever of the    *)
(* two stamps Emit is given, visitRoot returns without a panic, and the    *)
(* document has the line of the library's revision exactly when the        *)
(* library stamp is given, and the line of the schema's revision exactly   *)
(* when the schema stamp is given, each with the stamp as given.           *)
(***************************************************************************)
C19_StampsIndependent ==
    RootVisited =>
        /\ status = "done"
        /\ HeaderLine("// SHA of ksonnet-lib HEAD: %s") <=> ksonnetLibSHA # <<>>
        /\ HeaderLine("// SHA of Kubernetes HEAD OpenAPI spec is generated from: %s")
               <=> k8sSHA # <<>>
        /\ \A i \in 1..Len(Doc) :
               /\ Doc[i].text[1] = "// SHA of ksonnet-lib HEAD: %s" =>
                      Doc[i].text = <<"// SHA of ksonnet-lib HEAD: %s", ksonnetLibSHA[1]>>
               /\ Doc[i].text[1] = "// SHA of Kubernetes HEAD OpenAPI spec is generated from: %s" =>
                      Doc[i].text = <<"// SHA of Kubernetes HEAD OpenAPI spec is generated from: %s",
                                      k8sSHA[1]>>

(***************************************************************************)
(* C20.  Termination: a run that has not ended with a complete document   *)
(* or with a fatal abort has a definition to add or a visit to make; no    *)
(* run ends with the stack exhausted by a mixin expansion that is inside   *)
(* itself.                                                                 *)
(***************************************************************************)
C20_EndsWithDocumentOrAbort ==
    /\ status \in {"running", "done", "fatal"}
    /\ status = "running" => (pending # {} \/ pos <= Len(Visits(TheRoot)))

\* The lines of the document that are a type alias.
AliasLines == { i \in 1..Len(Doc) : Doc[i].text[1] = "%s:: hidden.%s.%s.%s," }

\* The objects of the hidden tree whose block the document opens under the
\* names group.version.id.
HiddenBlocks(group, version, id) ==
    { oid \in ObjectsOf(TheRoot) :
        /\ oid[1]
        /\ RewriteAsIdentifier(GroupSetOf(TheRoot, TRUE)[oid[2]].name) = group
        /\ VersionedAPIAt(TheRoot, SubSeq(oid, 1, 3)).version = version
        /\ RewriteAsIdentifier(Obj(TheRoot, oid).name) = id
        /\ OpensObject(oid) # {} }

(***************************************************************************)
(* C21.  Type-alias targets exist: in a finished document every line       *)
(* `<name>Type:: hidden.<group>.<version>.<id>` names an object whose      *)
(* block the document opens in the hidden tree under that group, version   *)
(* and identifier.                                                         *)
(***************************************************************************)
C21_AliasTargetsEmitted ==
    status = "done" =>
        \A i \in AliasLines :
            HiddenBlocks(Doc[i].text[3], Doc[i].text[4], Doc[i].text[5]) # {}

(***************************************************************************)
(* C22.  Constructor bodies only call setters that exist: when a           *)
(* constructor has been built, the term self.<setter>(<param>) of every    *)
(* parameter without an explicit path names a setter of the object, so     *)
(* not that of a blacklisted property or of a property expanded as a       *)
(* mixin namespace.                                                        *)
(***************************************************************************)
C22_CalledSettersExist ==
    (Len(BuiltJobs) > 0 /\ status = "running") =>
        LET job    == BuiltJobs[Len(BuiltJobs)]
            params == job.spec.Params
        IN  \A k \in 1..Len(params) :
                params[k].RelativePath = <<>> =>
                    ParamSetters(LastLine)[k][2] \in SettersOf(job.object)

(***************************************************************************)
(* C23.  Nested wrappers never refer to themselves: no wrapper line of the *)
(* output defines `__xMixin` as an application of `__xMixin`, also when a  *)
(* property of a nested level is named as the property of the enclosing    *)
(* level.                                                                  *)
(***************************************************************************)
ComposedWrappers ==
    { i \in 1..Len(Doc) : Doc[i].text[1] = "local %s(%s) = %s({%s+: %s})," }

C23_NoSelfReferringWrapper ==
    \A i \in ComposedWrappers : Doc[i].text[4] # Doc[i].text[2]

====
